---- MODULE Spec2Model ----
(***************************************************************************)
(* Taurscribe: the capture-to-transcript pipeline of src-tauri.            *)
(*                                                                         *)
(* The model follows commands/recording.rs (start_recording,               *)
(* stop_recording, the capture callback, the writer and the transcriber    *)
(* threads), commands/models.rs (switch_model, init_parakeet),             *)
(* commands/settings.rs (set_active_engine), state.rs (AudioState),        *)
(* denoise.rs (Denoiser::process) and utils.rs (clean_transcript).         *)
(*                                                                         *)
(* Audio is modelled sample by sample.  A captured sample is a positive    *)
(* even integer, numbered in capture order across the whole run, so that   *)
(* loss, duplication and reordering are visible; silence is 0.  A text is  *)
(* a sequence of one-character strings.                                    *)
(***************************************************************************)
EXTENDS Integers, Sequences, FiniteSets, TLC

(***************************************************************************)
(* Bounds of the exploration.                                              *)
(***************************************************************************)
\* number of sessions whose stream, channels or threads exist at one time
MaxSessions == 2
\* number of events from outside over the whole run: start_recording calls
\* that find a device, capture callbacks, engine commands (switch_model,
\* init_parakeet, set_active_engine), and stop_recording calls that arrive
\* while another is at work
MaxEvents == 3
\* the same where only recordings are started and stopped and nothing fails
MaxRecordingEvents == 4
\* the same under fair scheduling
MaxFairEvents == 2
\* number of non-empty texts the engines return over the whole run
MaxTexts == 2
\* the events of a run in which a worker thread may panic, and how many
\* panics may start in it
MaxPanicEvents == 2
MaxPanics == 1
\* frames per second of the capture device (cpal default_input_config)
SampleRate == 2
\* frames per second of the line-in device, and the events of a run that
\* records from it
LineSampleRate == 10
MaxLineEvents == 4
\* frame length of the frame processor (FRAME_SIZE of denoise.rs, scaled)
FrameSize == 2
\* the longest input given to Denoiser::process by itself, in frames
MaxDenoiseFrames == 4
\* the longest block given to is_speech by itself, in samples, and the
\* largest sample in it
MaxVadBlock == 3
MaxAmplitude == 7
\* the longest waveform given to get_speech_timestamps, in frames, and the
\* largest padding, in half frames
MaxVadFrames == 10
MaxPaddingHalfFrames == 4
\* FRAME_SIZE of get_speech_timestamps, scaled by 128 as SAMPLE_RATE is, and
\* MIN_SPEECH_FRAMES, scaled
VadFrameSize == 4
MinSpeechFrames == 2
\* bits of the significand of a time (24 in an f32), scaled
MantissaBits == 3

Sessions == 1..MaxSessions
NoSession == 0

(***************************************************************************)
(* Sequence helpers.                                                       *)
(***************************************************************************)
Take(s, n) == SubSeq(s, 1, n)
Drop(s, n) == SubSeq(s, n + 1, Len(s))
Zeros(n) == [i \in 1..n |-> 0]

(***************************************************************************)
(* Texts and clean_transcript (utils.rs).                                  *)
(***************************************************************************)
IsSpace(c) == c = " "

RECURSIVE TrimStart(_)
TrimStart(t) == IF t # <<>> /\ IsSpace(Head(t)) THEN TrimStart(Tail(t)) ELSE t

RECURSIVE TrimEnd(_)
TrimEnd(t) ==
    IF t # <<>> /\ IsSpace(t[Len(t)]) THEN TrimEnd(Take(t, Len(t) - 1)) ELSE t

\* str::trim
Trim(t) == TrimEnd(TrimStart(t))

\* str::replace(from, to) for a two-character pattern: leftmost first,
\* non-overlapping, single pass
RECURSIVE Replace2(_, _, _)
Replace2(t, from, to) ==
    IF Len(t) < 2 THEN t
    ELSE IF Take(t, 2) = from THEN to \o Replace2(Drop(t, 2), from, to)
    ELSE <<Head(t)>> \o Replace2(Tail(t), from, to)

Contains2(t, pat) == \E i \in 1..(Len(t) - 1) : SubSeq(t, i, i + 1) = pat

\* while cleaned.contains("  ") { cleaned = cleaned.replace("  ", " ") }
RECURSIVE CollapseSpaces(_)
CollapseSpaces(t) ==
    IF Contains2(t, <<" ", " ">>)
    THEN CollapseSpaces(Replace2(t, <<" ", " ">>, <<" ">>))
    ELSE t

\* char::is_lowercase / to_uppercase on the alphabet of the model
IsLower(c) == c \in {"a", "b"}
ToUpper(c) == CASE c = "a" -> "A" [] c = "b" -> "B" [] OTHER -> c

Capitalize(t) ==
    IF t # <<>> /\ IsLower(Head(t)) THEN <<ToUpper(Head(t))>> \o Tail(t) ELSE t

\* trim, the five replacements, the collapsing of spaces, the capital: each
\* pass works on the value of the pass before
clean_transcript(text) ==
    CHOOSE cleaned \in
        {Capitalize(c6) : c6 \in
        {CollapseSpaces(c5) : c5 \in
        {Replace2(c4, <<" ", "%">>, <<"%">>) : c4 \in
        {Replace2(c3, <<" ", "!">>, <<"!">>) : c3 \in
        {Replace2(c2, <<" ", "?">>, <<"?">>) : c2 \in
        {Replace2(c1, <<" ", ".">>, <<".">>) : c1 \in
        {Replace2(c0, <<" ", ",">>, <<",">>) : c0 \in {Trim(text)}}}}}}}} : TRUE

\* the fixed result strings of stop_recording
RecordingSaved == <<"Recording saved.">>
SilenceMarker == <<"[silence]">>
TranscriptionFailed == <<"Recording saved, but transcription failed">>

(***************************************************************************)
(* Audio helpers.                                                          *)
(***************************************************************************)
\* the n samples a capture callback delivers after `done` earlier samples
CaptureBlock(done, n) == [i \in 1..n |-> 2 * (done + i)]

\* data.chunks(channels).map(|c| c.iter().sum() / channels) when channels > 1,
\* data.to_vec() otherwise (recording.rs, the stream callback)
RECURSIVE SumSeq(_)
SumSeq(s) == IF s = <<>> THEN 0 ELSE Head(s) + SumSeq(Tail(s))

\* chunks(channels): the last chunk may be shorter
MonoMix(data, channels) ==
    IF channels <= 1 THEN data
    ELSE [i \in 1..((Len(data) + channels - 1) \div channels) |->
             SumSeq(SubSeq(data, (i - 1) * channels + 1,
                           IF i * channels < Len(data) THEN i * channels
                           ELSE Len(data)))
                 \div channels]

\* DenoiseState::process_frame: an opaque function of the whole frame; the
\* model marks each sample with the frame it has passed through in, named
\* by the frame's first sample
process_frame(frame) ==
    [i \in 1..Len(frame) |-> frame[i] + 1000 * (1 + frame[1])]
IsDenoised(v) == v >= 1000
Undenoised(v) == v % 1000

NoDenoiser == [some |-> FALSE, remainder |-> <<>>]
\* Denoiser::new
NewDenoiser == [some |-> TRUE, remainder |-> <<>>]

\* while src.len() >= FRAME_SIZE { process_frame(&src[..FRAME_SIZE]) ... }:
\* sample i of the output is a sample of the processed frame it lies in
FullFrames(src) ==
    [out |-> [i \in 1..((Len(src) \div FrameSize) * FrameSize) |->
                 process_frame(SubSeq(src, ((i - 1) \div FrameSize) * FrameSize + 1,
                                      ((i - 1) \div FrameSize + 1) * FrameSize))
                     [((i - 1) % FrameSize) + 1]],
     rest |-> Drop(src, (Len(src) \div FrameSize) * FrameSize)]

\* fault variant: what the call before left over is not used
process_unbuffered(remainder, input) ==
    [out |-> FullFrames(input).out, remainder |-> FullFrames(input).rest]
\* Denoiser::process: the output and the remainder it leaves
process(remainder, input) ==
    IF remainder # <<>>
    THEN LET need == FrameSize - Len(remainder)
         IN  IF Len(input) >= need
             THEN LET first == process_frame(remainder \o Take(input, need))
                      r == FullFrames(Drop(input, need))
                  IN  [out |-> first \o r.out, remainder |-> r.rest]
             ELSE [out |-> <<>>, remainder |-> remainder \o input]
    ELSE LET r == FullFrames(input)
         IN  [out |-> r.out, remainder |-> r.rest]

\* fault variant: the Parakeet window is a second long
one_second_chunk(sample_rate) == sample_rate
\* fault variant: no lead-in is computed
lead_in_omitted(sample_rate) == 0
\* let lead_in_samples = (sample_rate as f32 * 0.5) as usize
lead_in_samples(sample_rate) == (sample_rate * 5) \div 10
\* let silence_samples = recording.sample_rate as usize
silence_samples(sample_rate) == sample_rate
\* let chunk_size = (sample_rate * 6) as usize
chunk_size(sample_rate) == sample_rate * 6
\* let parakeet_chunk_size = (sample_rate as f32 * 1.12) as usize
parakeet_chunk_size(sample_rate) == (sample_rate * 112) \div 100
\* fault variant: any remainder that is not empty is decoded
NotEmpty(len, sample_rate) == len > 0
\* chunk_duration > 0.1, chunk_duration = buffer.len() / sample_rate
LongerThanMinimum(len, sample_rate) == len * 10 > sample_rate

(***************************************************************************)
(* State.                                                                  *)
(***************************************************************************)
VARIABLES
    recording_handle,     \* AudioState::recording_handle: NoSession or a session
    active_engine,        \* AudioState::active_engine
    whisper,              \* WhisperManager: current_model, backend, last_transcript
    parakeet,             \* ParakeetManager: model_name, backend
    denoiser,             \* AudioState::denoiser
    session_transcript,   \* AudioState::session_transcript
    last_recording_path,  \* AudioState::last_recording_path
    sessions,             \* per start_recording call: stream, channels, threads
    start,                \* start_recording in progress: pc and locals
    stop,                 \* stop_recording in progress: pc and locals
    switch,               \* switch_model in progress: pc and locals
    returned,             \* the result of the last command: pending or returned
    count,                \* how many events and engine texts so far
    call                  \* a function called by itself: arguments and results

\* the state of the application
app_vars == <<recording_handle, active_engine, whisper, parakeet, denoiser,
              session_transcript, last_recording_path, sessions, start, stop,
              switch, returned, count>>

vars == <<app_vars, call>>

\* GpuBackend
Backends == {"Vulkan", "Cpu"}
WhisperModels == {"base"}
ParakeetModels == {"nemotron"}
\* what a model produces for one window
DecodeOutputs == {<<>>, <<" ", "a", " ", ".">>}
\* frames a capture callback may deliver at once
BlockFrames == {1, 6 * SampleRate}
ChannelCounts == {1, 2}
\* the most samples one callback delivers
MaxBlock == 6 * SampleRate * 2

NoResult == [cmd |-> "none", ok |-> TRUE, text |-> <<>>]
Ok(cmd, text) == [cmd |-> cmd, ok |-> TRUE, text |-> text]
Err(cmd, text) == [cmd |-> cmd, ok |-> FALSE, text |-> text]
\* the command did not return: it panicked
Panicked(cmd) == [cmd |-> cmd, ok |-> FALSE, text |-> <<"panicked">>]

\* the engine selection and the loaded models
EngineSelection ==
    [active_engine |-> active_engine,
     whisper |-> [current_model |-> whisper.current_model, backend |-> whisper.backend],
     parakeet |-> [model_name |-> parakeet.model_name, backend |-> parakeet.backend]]

NoSelection == [active_engine |-> "none"]

FreshSession ==
    [stream |-> "none",            \* cpal stream: none, playing, dropped
     sample_rate |-> SampleRate,
     channels |-> 1,
     file_tx |-> FALSE,            \* sender held by start_recording / the handle
     file_tx_clone |-> FALSE,      \* sender held by the stream callback
     whisper_tx |-> FALSE,
     whisper_tx_clone |-> FALSE,
     file_rx |-> <<>>,             \* blocks in the persistence channel
     whisper_rx |-> <<>>,          \* blocks in the transcription channel
     writer_thread |-> "none",     \* none, running, done, panicked
     wav |-> <<>>,                 \* blocks written to the WAV file so far
     transcriber_thread |-> "none",\* none, recv, window, closed, done, panicked
     active_engine |-> "Whisper",  \* the transcriber's copy
     buffer |-> <<>>,
     captured |-> <<>>,            \* history: blocks the callback was given
     sent |-> <<>>,                \* history: blocks put on the transcription channel
     emitted |-> <<>>,             \* history: texts of transcription-chunk events
     decoded |-> <<>>,             \* history: non-empty texts the engine returned
     nested |-> {},                \* history: <<outer, inner>> for every mutex the
                                   \* transcriber locked holding another
     streamed |-> <<>>,            \* history: the samples given to the Parakeet engine
     reset |-> "none",             \* history: the engine whose context start_recording reset
     at_store |-> NoSelection]     \* history: the engines when the handle was stored

\* a std::sync::Mutex is poisoned once a thread has panicked holding it,
\* and lock().unwrap() panics on it from then on
AudioStateNew(limit, panics) ==
    /\ recording_handle = NoSession
    /\ active_engine = "Whisper"
    /\ whisper = [current_model |-> "tiny", backend |-> "Cpu",
                  last_transcript |-> <<>>, poisoned |-> FALSE]
    /\ parakeet = [model_name |-> "none", backend |-> "Cpu", poisoned |-> FALSE]
    /\ denoiser = NoDenoiser
    /\ session_transcript = <<>>
    /\ last_recording_path = NoSession
    /\ sessions = [s \in Sessions |-> FreshSession]
    /\ start = [pc |-> "idle", session |-> NoSession, denoise |-> FALSE]
    /\ stop = [pc |-> "idle", session |-> NoSession, waiting |-> FALSE]
    /\ switch = [pc |-> "idle", model_id |-> "none"]
    /\ returned = NoResult
    /\ count = [events |-> 0, limit |-> limit, texts |-> 0, panics |-> panics]

\* no function is called by itself while the application runs
NoCall == [fn |-> "none"]

InitPanics(limit, panics) == AudioStateNew(limit, panics) /\ call = NoCall

InitWithin(limit) == InitPanics(limit, 0)

\* AudioState::new, after run() has loaded the default Whisper model and
\* found no Parakeet model (init_parakeet loads one later)
Init == InitWithin(MaxEvents)

Bump(field) == [count EXCEPT ![field] = @ + 1]

(***************************************************************************)
(* start_recording (commands/recording.rs).                                *)
(***************************************************************************)
\* A session of the model is the stream, the channels and the threads of
\* one start_recording call.  It lasts while one of them does or while the
\* slot or a command holds it; then its record is given up, and the next
\* call takes its place.
Finished(session) ==
    /\ session.stream # "playing"
    /\ session.writer_thread \in {"none", "done", "panicked"}
    /\ session.transcriber_thread \in {"none", "done", "panicked"}

Held(s) == recording_handle = s \/ start.session = s \/ stop.session = s

Released(session, held) ==
    IF ~held /\ Finished(session) THEN FreshSession ELSE session

Ended(s) == ~Held(s) /\ Finished(sessions[s])

NextSession ==
    IF \E s \in Sessions : Ended(s)
    THEN CHOOSE s \in Sessions : Ended(s) /\ \A o \in Sessions : Ended(o) => s <= o
    ELSE NoSession

\* WhisperManager::clear_context / the Parakeet manager's reset
clear_context(engine, w) ==
    IF engine = "Whisper" THEN [w EXCEPT !.last_transcript = <<>>] ELSE w

\* is the mutex of the engine poisoned
EnginePoisoned(engine) ==
    IF engine = "Whisper" THEN whisper.poisoned ELSE parakeet.poisoned

\* the input devices of the host, by name, and no device
DeviceNames == {"builtin", "usb", "line"}
NoDevice == "none"
\* what selected_input_device may hold and what the host may have
PreferredDevices == {NoDevice, "usb"}
HostDevices == {{"builtin"}, {"builtin", "usb"}}

\* host.default_input_device()
default_input_device(devices) ==
    IF devices = {} THEN NoDevice
    ELSE IF "builtin" \in devices THEN "builtin"
    ELSE CHOOSE d \in devices : TRUE

\* fault variant: the default device stands in for a preferred one that is gone
input_device_or_default(preferred, devices) ==
    IF preferred # NoDevice /\ preferred \in devices THEN preferred
    ELSE default_input_device(devices)

\* Lines 22-30: the preferred device when one is named, found by its name
\* among host.input_devices(); the default device otherwise
input_device(preferred, devices) ==
    IF preferred # NoDevice
    THEN IF preferred \in devices THEN preferred ELSE NoDevice
    ELSE default_input_device(devices)

\* device.default_input_config(): the sample rate of the device
config_sample_rate(device) ==
    IF device = "line" THEN LineSampleRate ELSE SampleRate

\* Lines 19-53: device and recordings directory, then the context reset of
\* the active engine, under the engine's lock.  Nothing in the function
\* looks at recording_handle.
StartCall(s, denoise, channels, preferred, devices) ==
    /\ start.pc = "idle"
    /\ s = NextSession
    /\ IF input_device(preferred, devices) # NoDevice
          /\ ~EnginePoisoned(active_engine)
       THEN /\ count.events < count.limit
            /\ count' = Bump("events")
            /\ start' = [pc |-> "open", session |-> s, denoise |-> denoise]
            /\ sessions' = [sessions EXCEPT ![s] =
                                [FreshSession EXCEPT
                                    !.channels = channels,
                                    !.reset = active_engine,
                                    !.sample_rate = config_sample_rate(
                                        input_device(preferred, devices))]]
            /\ whisper' = clear_context(active_engine, whisper)
            /\ returned' = NoResult
       ELSE /\ returned' =
                   IF input_device(preferred, devices) # NoDevice
                   THEN Panicked("start_recording")
                   ELSE IF preferred # NoDevice
                   THEN Err("start_recording", <<"Input device not found">>)
                   ELSE Err("start_recording", <<"No input device">>)
            /\ UNCHANGED <<start, sessions, whisper, count>>
    /\ UNCHANGED <<call, recording_handle, active_engine, parakeet, denoiser,
                   session_transcript, last_recording_path, stop, switch>>

\* fault variant: the stream is forgotten, not dropped
DroppedKeepingStream(session) ==
    [session EXCEPT !.file_tx = FALSE, !.file_tx_clone = FALSE,
                    !.whisper_tx = FALSE, !.whisper_tx_clone = FALSE]

\* fault variant: the callback's transcription sender outlives the stream
DroppedKeepingCallbackSender(session) ==
    [session EXCEPT !.stream = IF @ = "playing" THEN "dropped" ELSE @,
                    !.file_tx = FALSE, !.file_tx_clone = FALSE,
                    !.whisper_tx = FALSE]

\* what dropping a stream and the senders of a session leaves of it
Dropped(session) ==
    [session EXCEPT !.stream = IF @ = "playing" THEN "dropped" ELSE @,
                    !.file_tx = FALSE, !.file_tx_clone = FALSE,
                    !.whisper_tx = FALSE, !.whisper_tx_clone = FALSE]

\* fault variant: the lead-in silence goes to both channels
SpawnedLeadInToFile(session) ==
    LET lead_in == Zeros(lead_in_samples(session.sample_rate))
    IN  [session EXCEPT !.file_tx = TRUE, !.file_tx_clone = TRUE,
                        !.whisper_tx = TRUE, !.whisper_tx_clone = TRUE,
                        !.file_rx = <<lead_in>>,
                        !.whisper_rx = <<lead_in>>,
                        !.sent = <<lead_in>>,
                        !.writer_thread = "running",
                        !.transcriber_thread = "recv",
                        !.active_engine = active_engine]

\* Lines 66-264: the channels, the lead-in silence and the two worker threads
Spawned(session) ==
    LET lead_in == Zeros(lead_in_samples(session.sample_rate))
    IN  [session EXCEPT !.file_tx = TRUE, !.file_tx_clone = TRUE,
                        !.whisper_tx = TRUE, !.whisper_tx_clone = TRUE,
                        !.whisper_rx = <<lead_in>>,
                        !.sent = <<lead_in>>,
                        !.writer_thread = "running",
                        !.transcriber_thread = "recv",
                        !.active_engine = active_engine]

\* Lines 55-305: last_recording_path, session_transcript and the denoiser
\* slot are set; WavWriter::create may fail; the workers are spawned;
\* build_input_stream or play may fail, and then the function returns and
\* its locals (the senders, the stream, the join handles) drop.
StartOpen(outcome) ==
    /\ start.pc = "open"
    /\ last_recording_path' = start.session
    /\ session_transcript' = <<>>
    /\ denoiser' = IF start.denoise THEN NewDenoiser ELSE NoDenoiser
    /\ sessions' = [sessions EXCEPT ![start.session] =
           CASE outcome = "playing" -> [Spawned(@) EXCEPT !.stream = "playing"]
             [] outcome = "no stream" -> Dropped(Spawned(@))
             [] OTHER -> Released(@, FALSE)]
    /\ returned' =
           CASE outcome = "playing" -> returned
             [] outcome = "no stream" -> Err("start_recording", <<"stream error">>)
             [] OTHER -> Err("start_recording", <<"WavWriter::create failed">>)
    /\ start' = IF outcome = "playing" THEN [start EXCEPT !.pc = "store"]
                ELSE [pc |-> "idle", session |-> NoSession, denoise |-> FALSE]
    /\ UNCHANGED <<call, recording_handle, active_engine, whisper, parakeet, stop,
                   switch, count>>

\* the slot's mutex is poisoned: a stop_recording panicked holding its guard
SlotPoisoned == stop.pc = "panicked"

\* Lines 307-316: the handle is stored in the slot; a handle that was there
\* is dropped by the assignment (its stream, its senders, its join handles).
\* On a poisoned slot lock().unwrap() panics and the locals drop.
StartStore ==
    /\ start.pc = "store"
    /\ stop.pc # "join"
    /\ IF SlotPoisoned
       THEN /\ sessions' = [sessions EXCEPT ![start.session] =
                                Released(Dropped(@), FALSE)]
            /\ returned' = Panicked("start_recording")
            /\ UNCHANGED recording_handle
       ELSE /\ recording_handle' = start.session
            /\ sessions' = [s \in Sessions |->
                   IF s = start.session
                   THEN [sessions[s] EXCEPT !.at_store = EngineSelection]
                   ELSE IF s = recording_handle THEN Dropped(sessions[s])
                   ELSE sessions[s]]
            /\ returned' = Ok("start_recording", <<"Recording started">>)
    /\ start' = [pc |-> "idle", session |-> NoSession, denoise |-> FALSE]
    /\ UNCHANGED <<call, active_engine, whisper, parakeet, denoiser, session_transcript,
                   last_recording_path, stop, switch, count>>

(***************************************************************************)
(* The stream callback (recording.rs lines 273-297).                       *)
(***************************************************************************)
\* who else may hold the denoiser lock while the callback of s runs:
\* start_recording at lines 59-64, or the callback of another stream
DenoiserLockContended(s) ==
    \/ start.pc = "open"
    \/ \E o \in Sessions \ {s} : sessions[o].stream = "playing"

\* what the callback sends to the transcriber and the denoiser it leaves
TranscriberData(mono_data, locked) ==
    IF ~locked /\ denoiser.some
    THEN LET r == process(denoiser.remainder, mono_data)
         IN  [data |-> r.out, denoiser |-> [denoiser EXCEPT !.remainder = r.remainder]]
    ELSE [data |-> mono_data, denoiser |-> denoiser]

\* fault variant: Mutex::lock, which waits while the lock is held
lock_waits(held) == ~held
\* Mutex::try_lock returns at once, with Err while the lock is held: can the
\* caller go on
try_lock(held) == TRUE

\* The callback sends on unbounded channels, which never wait; `locked`
\* says that the denoiser's lock was held when it tried.
Callback(s, frames, locked) ==
    /\ sessions[s].stream = "playing"
    /\ count.events < count.limit
    /\ locked => DenoiserLockContended(s)
    /\ try_lock(locked)
    /\ \E data \in {CaptureBlock(count.events * MaxBlock,
                                  frames * sessions[s].channels)} :
       \E mono_data \in {MonoMix(data, sessions[s].channels)} :
       \E t \in {TranscriberData(mono_data, locked)} :
           /\ sessions' = [sessions EXCEPT ![s] =
                  [@ EXCEPT !.file_rx = Append(@, data),
                            !.captured = Append(@, data),
                            !.whisper_rx = Append(@, t.data),
                            !.sent = Append(@, t.data)]]
           /\ denoiser' = t.denoiser
           /\ count' = Bump("events")
    /\ UNCHANGED <<call, recording_handle, active_engine, whisper, parakeet,
                   session_transcript, last_recording_path, start, stop, switch,
                   returned>>

(***************************************************************************)
(* The writer thread (recording.rs lines 95-104).                          *)
(***************************************************************************)
\* while let Ok(samples) = file_rx.recv() { write_sample(sample).ok() ... }:
\* one block is taken and written.  The result of write_sample is thrown
\* away by the code; the model takes every write to succeed.
WriterWrite(s) ==
    /\ sessions[s].writer_thread = "running"
    /\ sessions[s].file_rx # <<>>
    /\ sessions' = [sessions EXCEPT ![s] =
           [@ EXCEPT !.wav = Append(@, Head(sessions[s].file_rx)),
                     !.file_rx = Tail(@)]]
    /\ UNCHANGED <<call, recording_handle, active_engine, whisper, parakeet, denoiser,
                   session_transcript, last_recording_path, start, stop, switch,
                   returned, count>>

\* recv fails once the channel is empty and every sender is gone
WriterFinalize(s) ==
    /\ sessions[s].writer_thread = "running"
    /\ sessions[s].file_rx = <<>>
    /\ ~sessions[s].file_tx /\ ~sessions[s].file_tx_clone
    /\ sessions' = [sessions EXCEPT ![s] = Released([@ EXCEPT !.writer_thread = "done"], Held(s))]
    /\ UNCHANGED <<call, recording_handle, active_engine, whisper, parakeet, denoiser,
                   session_transcript, last_recording_path, start, stop, switch,
                   returned, count>>

\* the writer thread panics: it holds no mutex, and its join returns Err
WriterPanic(s) ==
    /\ sessions[s].writer_thread = "running"
    /\ count.panics > 0
    /\ count' = [count EXCEPT !.panics = @ - 1]
    /\ sessions' = [sessions EXCEPT ![s] =
           Released([@ EXCEPT !.writer_thread = "panicked", !.file_rx = <<>>],
                    Held(s))]
    /\ UNCHANGED <<call, recording_handle, active_engine, whisper, parakeet, denoiser,
                   session_transcript, last_recording_path, start, stop, switch,
                   returned>>

(***************************************************************************)
(* The engines (whisper.rs, parakeet.rs).                                  *)
(***************************************************************************)
Failed == [ok |-> FALSE, text |-> <<>>]
\* the call did not return: the thread panicked inside it, or in
\* lock().unwrap() on a poisoned mutex before it
Panic == [ok |-> FALSE, text |-> <<"panic">>]

\* the panics that may still start within the bound of the exploration
Panics == IF count.panics > 0 THEN {Panic} ELSE {}

\* the texts a model may still produce within the bound of the exploration
Outputs == IF count.texts < MaxTexts THEN DecodeOutputs ELSE {<<>>}

\* the counters after an engine call that returned r
Counted(r) ==
    IF r.ok /\ r.text # <<>> THEN Bump("texts")
    ELSE IF r = Panic /\ count.panics > 0 THEN [count EXCEPT !.panics = @ - 1]
    ELSE count

\* WhisperManager::transcribe_chunk: an error without a context or from the
\* model, else the trimmed text
WhisperResults(w) ==
    IF w.poisoned THEN {Panic}
    ELSE IF w.current_model = "none" THEN {Failed}
    ELSE {Failed} \cup {[ok |-> TRUE, text |-> Trim(o)] : o \in Outputs} \cup Panics

\* ... which it appends to last_transcript after a space when not empty;
\* a panic under the manager's lock poisons it
AfterTranscribe(w, r) ==
    IF r.ok /\ r.text # <<>>
    THEN [w EXCEPT !.last_transcript =
              (IF @ # <<>> THEN @ \o <<" ">> ELSE @) \o r.text]
    ELSE IF r = Panic THEN [w EXCEPT !.poisoned = TRUE]
    ELSE w

\* ParakeetManager::transcribe_chunk: "No model loaded", a model error, or
\* the text as the model gave it
ParakeetResults(p) ==
    IF p.poisoned THEN {Panic}
    ELSE IF p.model_name = "none" THEN {Failed}
    ELSE {Failed} \cup {[ok |-> TRUE, text |-> o] : o \in Outputs} \cup Panics

\* the Parakeet manager after the call: a panic under its lock poisons it
AfterParakeet(p, r) == IF r = Panic THEN [p EXCEPT !.poisoned = TRUE] ELSE p

\* VADManager::is_speech(chunk) > 0.5: never for a block of zeros (RMS 0 is
\* below the threshold), either way for captured audio
SpeechVerdicts(chunk) ==
    IF \A i \in 1..Len(chunk) : chunk[i] = 0 THEN {FALSE} ELSE {FALSE, TRUE}

(***************************************************************************)
(* The transcriber thread (recording.rs lines 115-264).                    *)
(***************************************************************************)
WindowSize(session) ==
    IF session.active_engine = "Whisper"
    THEN chunk_size(session.sample_rate)
    ELSE parakeet_chunk_size(session.sample_rate)

\* fault variant: `if` for `while`, one window for each block received
AfterOneWindow(session) == "recv"

AfterBuffer(session) ==
    IF Len(session.buffer) >= WindowSize(session) THEN "window" ELSE "recv"

\* while let Ok(samples) = whisper_rx.recv() { buffer.extend(samples); ...
TranscriberRecv(s) ==
    /\ sessions[s].transcriber_thread = "recv"
    /\ sessions[s].whisper_rx # <<>>
    /\ LET samples == Head(sessions[s].whisper_rx)
           got == [sessions[s] EXCEPT !.whisper_rx = Tail(@),
                                      !.buffer = @ \o samples]
       IN  sessions' = [sessions EXCEPT ![s] =
                            [got EXCEPT !.transcriber_thread = AfterBuffer(got)]]
    /\ UNCHANGED <<call, recording_handle, active_engine, whisper, parakeet, denoiser,
                   session_transcript, last_recording_path, start, stop, switch,
                   returned, count>>

\* the buffer after the oldest window was dropped when it holds more than two
AfterBackpressure(buffer, size) ==
    IF Len(buffer) > 2 * size THEN Drop(buffer, size) ELSE buffer

\* fault variant: an event is emitted whatever the call returned
EmitsErrors(engine, r) == TRUE
\* does the transcriber emit a transcription-chunk event for this result
Emits(engine, r) ==
    r.ok /\ (IF engine = "Whisper" THEN Trim(r.text) # <<>> ELSE r.text # <<>>)

\* fault variant: the engine is called whatever is_speech held
WindowResultsUnchecked(session, speech) ==
    IF session.active_engine = "Whisper" THEN WhisperResults(whisper)
    ELSE ParakeetResults(parakeet)

\* the mutexes the transcriber locks while it holds the lock of the engine
\* whose call returned r: the guard of the Whisper manager lives to the end
\* of its match, in which nothing is locked; that of the Parakeet manager to
\* the end of its match or block, in which session_transcript is locked for a
\* text that is not empty
NestedLocks(engine, r) ==
    IF engine = "Parakeet" /\ r.ok /\ r.text # <<>>
    THEN {<<"parakeet", "session_transcript">>}
    ELSE {}

\* what the engine call of a window returns: nothing is called for a chunk
\* that is_speech held to be silence
WindowResults(session, speech) ==
    IF ~speech THEN {Failed}
    ELSE IF session.active_engine = "Whisper" THEN WhisperResults(whisper)
    ELSE ParakeetResults(parakeet)

\* one turn of `while buffer.len() >= chunk_size` inside the recv loop, in
\* which is_speech held the chunk to be `speech` and transcribe_chunk gave r
TranscriberWindowWith(s, speech, r) ==
    /\ sessions[s].transcriber_thread = "window"
    /\ LET me == sessions[s]
           size == WindowSize(me)
           kept == AfterBackpressure(me.buffer, size)
           chunk == Take(kept, size)
           whisper_path == me.active_engine = "Whisper"
           next == [me EXCEPT !.buffer = Drop(kept, size)]
           emits == speech /\ Emits(me.active_engine, r)
       IN  /\ speech \in (IF whisper_path THEN SpeechVerdicts(chunk) ELSE {TRUE})
           /\ r \in WindowResults(me, speech)
           /\ sessions' = [sessions EXCEPT ![s] = Released(
                  [next EXCEPT
                     !.transcriber_thread =
                         IF r = Panic THEN "panicked" ELSE AfterBuffer(next),
                     !.emitted = IF emits THEN Append(@, r.text) ELSE @,
                     !.decoded = IF emits THEN Append(@, r.text) ELSE @,
                     !.nested = IF speech
                                THEN @ \cup NestedLocks(me.active_engine, r)
                                ELSE @,
                     !.streamed = IF whisper_path THEN @ ELSE @ \o chunk],
                  Held(s))]
           /\ whisper' = IF speech /\ whisper_path
                         THEN AfterTranscribe(whisper, r) ELSE whisper
           /\ parakeet' = IF whisper_path THEN parakeet
                          ELSE AfterParakeet(parakeet, r)
           /\ session_transcript' =
                  IF emits /\ ~whisper_path
                  THEN session_transcript \o r.text ELSE session_transcript
           /\ count' = Counted(r)
    /\ UNCHANGED <<call, recording_handle, active_engine, denoiser,
                   last_recording_path, start, stop, switch, returned>>

\* every way an engine call may end
EngineOutcomes ==
    {Failed, Panic} \cup {[ok |-> TRUE, text |-> o] : o \in DecodeOutputs}
                    \cup {[ok |-> TRUE, text |-> Trim(o)] : o \in DecodeOutputs}

TranscriberWindow(s) ==
    \E speech \in BOOLEAN, r \in EngineOutcomes : TranscriberWindowWith(s, speech, r)

\* recv fails once the channel is empty and every sender is gone
Disconnected(session) ==
    /\ session.transcriber_thread = "recv"
    /\ session.whisper_rx = <<>>
    /\ ~session.whisper_tx /\ ~session.whisper_tx_clone

\* Lines 220-263: after the loop, `while buffer.len() >= chunk_size` decodes
\* whole six-second windows, then the remainder is decoded when it is longer
\* than 0.1 s.  Neither emits an event; the Parakeet path appends the text
\* to the session transcript.
TranscriberFinish(s) ==
    /\ sessions[s].transcriber_thread = "closed" \/ Disconnected(sessions[s])
    /\ LET me == sessions[s]
           size == chunk_size(me.sample_rate)
           whole == Len(me.buffer) >= size
           calls == whole \/ (me.buffer # <<>>
                              /\ LongerThanMinimum(Len(me.buffer), me.sample_rate))
           whisper_path == me.active_engine = "Whisper"
       IN  \E r \in (IF ~calls THEN {Failed}
                     ELSE IF whisper_path THEN WhisperResults(whisper)
                     ELSE ParakeetResults(parakeet)) :
              LET text == r.ok /\ r.text # <<>>
              IN  /\ sessions' = [sessions EXCEPT ![s] = Released(
                         [me EXCEPT
                            !.buffer = IF whole THEN Drop(@, size) ELSE @,
                            !.transcriber_thread =
                                IF r = Panic THEN "panicked"
                                ELSE IF whole THEN "closed" ELSE "done",
                            !.decoded = IF calls /\ text THEN Append(@, r.text) ELSE @,
                            !.nested = IF calls
                                       THEN @ \cup NestedLocks(me.active_engine, r)
                                       ELSE @,
                            !.streamed =
                                IF whisper_path \/ ~calls THEN @
                                ELSE @ \o (IF whole THEN Take(me.buffer, size)
                                           ELSE me.buffer)],
                         Held(s))]
                  /\ whisper' = IF calls /\ whisper_path
                                THEN AfterTranscribe(whisper, r) ELSE whisper
                  /\ parakeet' = IF calls /\ ~whisper_path
                                 THEN AfterParakeet(parakeet, r) ELSE parakeet
                  /\ session_transcript' =
                         IF calls /\ text /\ ~whisper_path
                         THEN session_transcript \o r.text ELSE session_transcript
                  /\ count' = Counted(r)
    /\ UNCHANGED <<call, recording_handle, active_engine, denoiser,
                   last_recording_path, start, stop, switch, returned>>

(***************************************************************************)
(* stop_recording (recording.rs lines 449-555).                            *)
(***************************************************************************)
\* fault variant: the handle is looked at and left in the slot
left_in_place(handle) == handle
\* Option::take: the slot is left empty
taken(handle) == NoSession

\* Lines 450-475, under the slot's lock, which is held until the return:
\* take the handle, drop the stream and file_tx, send a second of silence
\* to the transcriber, empty the denoiser slot, drop whisper_tx.  On a
\* poisoned slot lock().unwrap() panics.
StopCall ==
    /\ stop.pc # "join"
    /\ IF SlotPoisoned \/ recording_handle = NoSession
       THEN /\ returned' = IF SlotPoisoned THEN Panicked("stop_recording")
                            ELSE Err("stop_recording", <<"Not recording">>)
            /\ stop' = [stop EXCEPT !.waiting = FALSE]
            /\ UNCHANGED <<recording_handle, sessions, denoiser>>
       ELSE LET s == recording_handle
                silence == Zeros(silence_samples(sessions[s].sample_rate))
            IN  /\ recording_handle' = taken(recording_handle)
                /\ sessions' = [sessions EXCEPT ![s] =
                       Dropped([@ EXCEPT !.whisper_rx = Append(@, silence),
                                         !.sent = Append(@, silence)])]
                /\ denoiser' = NoDenoiser
                /\ stop' = [pc |-> "join", session |-> s, waiting |-> FALSE]
                /\ returned' = NoResult
    /\ UNCHANGED <<call, active_engine, whisper, parakeet, session_transcript,
                   last_recording_path, start, switch, count>>

\* Line 450, a second call: stop_recording is called while another call
\* holds the slot's lock; it waits in lock() and goes on, as StopCall, once
\* the lock is free.
StopWait ==
    /\ stop.pc = "join"
    /\ ~stop.waiting
    /\ count.events < count.limit
    /\ count' = Bump("events")
    /\ stop' = [stop EXCEPT !.waiting = TRUE]
    /\ UNCHANGED <<call, recording_handle, active_engine, whisper, parakeet, denoiser,
                   session_transcript, last_recording_path, sessions, start,
                   switch, returned>>

\* fault variant: the thread is detached, not joined
detached(thread) == TRUE
\* JoinHandle::join returns once the thread has ended, Err when it panicked
join(thread) == thread \in {"done", "panicked"}

\* what transcribe_audio_data may return
FinalDecodes ==
    {Failed} \cup (IF whisper.current_model = "none" THEN {}
                   ELSE {[ok |-> TRUE, text |-> o] : o \in DecodeOutputs})

\* fault variant: a recording without speech is decoded like any other
FinalPassOfAll(loaded, silent, r) ==
    IF last_recording_path = NoSession
    THEN Ok("stop_recording", RecordingSaved)
    ELSE IF whisper.poisoned THEN Panicked("stop_recording")
    ELSE IF ~loaded THEN Err("stop_recording", <<"load_audio failed">>)
    ELSE IF r.ok THEN Ok("stop_recording", clean_transcript(r.text))
    ELSE Ok("stop_recording", TranscriptionFailed)
\* Lines 502-552, the Whisper branch: load_audio gave the recording or
\* failed, get_speech_timestamps found no segment in it (silent) or some,
\* and transcribe_audio_data, when it is called, returned r
FinalPass(loaded, silent, r) ==
    IF last_recording_path = NoSession
    THEN Ok("stop_recording", RecordingSaved)
    ELSE IF whisper.poisoned THEN Panicked("stop_recording")
    ELSE IF ~loaded THEN Err("stop_recording", <<"load_audio failed">>)
    ELSE IF silent THEN Ok("stop_recording", SilenceMarker)
    ELSE IF r.ok THEN Ok("stop_recording", clean_transcript(r.text))
    ELSE Ok("stop_recording", TranscriptionFailed)

\* is transcribe_audio_data called in the final pass
FinalPassDecodes(loaded, silent) ==
    /\ active_engine # "Parakeet"
    /\ last_recording_path # NoSession
    /\ ~whisper.poisoned
    /\ loaded /\ ~silent

\* Lines 490-500, the Parakeet branch
StreamingResult ==
    IF session_transcript = <<>>
    THEN Ok("stop_recording", RecordingSaved)
    ELSE Ok("stop_recording", clean_transcript(session_transcript))

\* Lines 480-555: join both workers, branch on the active engine, return.
\* A panic unwinds through the guard of the slot and poisons its mutex.
StopReturnWith(loaded, silent, r) ==
    /\ stop.pc = "join"
    /\ join(sessions[stop.session].writer_thread)
    /\ join(sessions[stop.session].transcriber_thread)
    /\ r \in (IF FinalPassDecodes(loaded, silent) THEN FinalDecodes ELSE {Failed})
    /\ \E result \in {IF active_engine = "Parakeet" THEN StreamingResult
                       ELSE FinalPass(loaded, silent, r)} :
          /\ returned' = result
          /\ stop' = [pc |-> IF result = Panicked("stop_recording")
                             THEN "panicked" ELSE "idle",
                      session |-> NoSession, waiting |-> stop.waiting]
    /\ sessions' = [sessions EXCEPT ![stop.session] =
                        Released(@, recording_handle = stop.session)]
    /\ UNCHANGED <<call, recording_handle, active_engine, whisper, parakeet, denoiser,
                   session_transcript, last_recording_path, start,
                   switch, count>>

StopReturn ==
    \E loaded \in BOOLEAN, silent \in BOOLEAN, r \in EngineOutcomes :
        StopReturnWith(loaded, silent, r)

(***************************************************************************)
(* switch_model, init_parakeet (commands/models.rs) and set_active_engine  *)
(* (commands/settings.rs).                                                 *)
(***************************************************************************)
\* fault variant: the slot is not looked at
never_refused == FALSE
\* if handle.is_some() { return Err("Cannot switch models while recording") }
switch_model_refused == recording_handle # NoSession

\* Lines 24-28: the check under the slot's lock, which is then released
SwitchCall(model_id) ==
    /\ switch.pc = "idle"
    /\ stop.pc # "join"
    /\ count.events < count.limit
    /\ count' = Bump("events")
    /\ IF SlotPoisoned \/ switch_model_refused
       THEN /\ returned' =
                   IF SlotPoisoned THEN Panicked("switch_model")
                   ELSE Err("switch_model",
                            <<"Cannot switch models while recording">>)
            /\ UNCHANGED switch
       ELSE /\ switch' = [pc |-> "initialize", model_id |-> model_id]
            /\ returned' = NoResult
    /\ UNCHANGED <<call, recording_handle, active_engine, whisper, parakeet, denoiser,
                   session_transcript, last_recording_path, sessions, start,
                   stop>>

\* WhisperManager::initialize, under the manager's lock: the model file is
\* missing or no backend loads it, or it is loaded and warmed up with one
\* transcribe_chunk call
InitializeOutcomes(model_id) ==
    IF whisper.poisoned
    THEN {[ok |-> FALSE, whisper |-> whisper, warm_up |-> Panic]}
    ELSE {[ok |-> FALSE, whisper |-> whisper, warm_up |-> Failed]} \cup
         {[ok |-> r # Panic, warm_up |-> r,
           whisper |-> AfterTranscribe([whisper EXCEPT !.current_model = model_id,
                                                       !.backend = b], r)] :
             b \in Backends,
             r \in WhisperResults([whisper EXCEPT !.current_model = model_id])}

\* Lines 33-34
SwitchInitialize ==
    /\ switch.pc = "initialize"
    /\ \E o \in InitializeOutcomes(switch.model_id) :
          /\ whisper' = o.whisper
          /\ returned' = IF o.ok THEN Ok("switch_model", <<"Backend">>)
                         ELSE IF o.warm_up = Panic THEN Panicked("switch_model")
                         ELSE Err("switch_model", <<"Model file not found">>)
          /\ count' = Counted(o.warm_up)
    /\ switch' = [pc |-> "idle", model_id |-> "none"]
    /\ UNCHANGED <<call, recording_handle, active_engine, parakeet, denoiser,
                   session_transcript, last_recording_path, sessions, start,
                   stop>>

\* models.rs lines 45-53
InitParakeet(model_id, loaded, backend) ==
    /\ count.events < count.limit
    /\ count' = Bump("events")
    /\ IF loaded /\ ~parakeet.poisoned
       THEN /\ parakeet' = [model_name |-> model_id, backend |-> backend,
                            poisoned |-> FALSE]
            /\ active_engine' = "Parakeet"
            /\ returned' = Ok("init_parakeet", <<"Loaded">>)
       ELSE /\ returned' = IF parakeet.poisoned THEN Panicked("init_parakeet")
                            ELSE Err("init_parakeet", <<"No model">>)
            /\ UNCHANGED <<parakeet, active_engine>>
    /\ UNCHANGED <<call, recording_handle, whisper, denoiser, session_transcript,
                   last_recording_path, sessions, start, stop, switch>>

\* settings.rs lines 26-36
SetActiveEngine(engine) ==
    /\ count.events < count.limit
    /\ count' = Bump("events")
    /\ IF engine \in {"whisper", "parakeet"}
       THEN /\ active_engine' = IF engine = "whisper" THEN "Whisper" ELSE "Parakeet"
            /\ returned' = Ok("set_active_engine", <<"Engine switched">>)
       ELSE /\ returned' = Err("set_active_engine", <<"Unknown engine">>)
            /\ UNCHANGED active_engine
    /\ UNCHANGED <<call, recording_handle, whisper, parakeet, denoiser,
                   session_transcript, last_recording_path, sessions, start,
                   stop, switch>>

(***************************************************************************)
(* The system.                                                             *)
(***************************************************************************)
Next ==
    \/ \E s \in Sessions, denoise \in BOOLEAN, channels \in ChannelCounts,
          preferred \in PreferredDevices, devices \in HostDevices :
          StartCall(s, denoise, channels, preferred, devices)
    \/ \E outcome \in {"playing", "no stream", "no file"} : StartOpen(outcome)
    \/ StartStore
    \/ \E s \in Sessions, frames \in BlockFrames, locked \in BOOLEAN :
          Callback(s, frames, locked)
    \/ \E s \in Sessions : WriterWrite(s)
    \/ \E s \in Sessions : WriterFinalize(s)
    \/ \E s \in Sessions : TranscriberRecv(s)
    \/ \E s \in Sessions : TranscriberWindow(s)
    \/ \E s \in Sessions : TranscriberFinish(s)
    \/ StopCall
    \/ StopWait
    \/ StopReturn
    \/ \E model_id \in WhisperModels : SwitchCall(model_id)
    \/ SwitchInitialize
    \/ \E model_id \in ParakeetModels, loaded \in BOOLEAN, backend \in Backends :
          InitParakeet(model_id, loaded, backend)
    \/ \E engine \in {"whisper", "parakeet", "other"} : SetActiveEngine(engine)

Spec == Init /\ [][Next]_vars

\* Recordings only: every start_recording finds its device, creates its
\* file and opens its stream, and no engine command is given.
NextRecording ==
    \/ \E s \in Sessions, denoise \in BOOLEAN, channels \in ChannelCounts :
          StartCall(s, denoise, channels, NoDevice, {"builtin"})
    \/ StartOpen("playing")
    \/ StartStore
    \/ \E s \in Sessions, frames \in BlockFrames, locked \in BOOLEAN :
          Callback(s, frames, locked)
    \/ \E s \in Sessions : WriterWrite(s)
    \/ \E s \in Sessions : WriterFinalize(s)
    \/ \E s \in Sessions : TranscriberRecv(s)
    \/ \E s \in Sessions : TranscriberWindow(s)
    \/ \E s \in Sessions : TranscriberFinish(s)
    \/ StopCall
    \/ StopWait
    \/ StopReturn

RecordingSpec == InitWithin(MaxRecordingEvents) /\ [][NextRecording]_vars

\* The program with worker threads that may panic.
NextPanic ==
    \/ \E s \in Sessions, denoise \in BOOLEAN, channels \in ChannelCounts,
          preferred \in PreferredDevices, devices \in HostDevices :
          StartCall(s, denoise, channels, preferred, devices)
    \/ \E outcome \in {"playing", "no stream", "no file"} : StartOpen(outcome)
    \/ StartStore
    \/ \E s \in Sessions, frames \in BlockFrames, locked \in BOOLEAN :
          Callback(s, frames, locked)
    \/ \E s \in Sessions : WriterWrite(s)
    \/ \E s \in Sessions : WriterFinalize(s)
    \/ \E s \in Sessions : WriterPanic(s)
    \/ \E s \in Sessions : TranscriberRecv(s)
    \/ \E s \in Sessions : TranscriberWindow(s)
    \/ \E s \in Sessions : TranscriberFinish(s)
    \/ StopCall
    \/ StopWait
    \/ StopReturn
    \/ \E model_id \in WhisperModels : SwitchCall(model_id)
    \/ SwitchInitialize
    \/ \E model_id \in ParakeetModels, loaded \in BOOLEAN, backend \in Backends :
          InitParakeet(model_id, loaded, backend)
    \/ \E engine \in {"whisper", "parakeet", "other"} : SetActiveEngine(engine)

PanicSpec == InitPanics(MaxPanicEvents, MaxPanics) /\ [][NextPanic]_vars

\* Recordings from the line-in device, without denoising, with either
\* engine: Parakeet once init_parakeet has loaded its model.  The device
\* delivers half a second or a second at a time.
LineBlockFrames == {LineSampleRate \div 2, LineSampleRate}

NextLineOf(blocks) ==
    \/ \E s \in Sessions : StartCall(s, FALSE, 1, NoDevice, {"line"})
    \/ StartOpen("playing")
    \/ StartStore
    \/ \E s \in Sessions, frames \in blocks : Callback(s, frames, FALSE)
    \/ \E s \in Sessions : WriterWrite(s)
    \/ \E s \in Sessions : WriterFinalize(s)
    \/ \E s \in Sessions : TranscriberRecv(s)
    \/ \E s \in Sessions : TranscriberWindow(s)
    \/ \E s \in Sessions : TranscriberFinish(s)
    \/ StopCall
    \/ StopWait
    \/ StopReturn
    \/ \E model_id \in ParakeetModels : InitParakeet(model_id, TRUE, "Cpu")

NextLine == NextLineOf(LineBlockFrames)

LineSpec == InitWithin(MaxLineEvents) /\ [][NextLine]_vars

\* the callback blocks after which the lead-in, the block and the second of
\* silence that stop_recording sends make two windows of Parakeet, or one
\* sample more
RemnantBlockFrames ==
    {2 * parakeet_chunk_size(LineSampleRate) - lead_in_samples(LineSampleRate)
       - silence_samples(LineSampleRate) + over : over \in {0, 1}}

NextRemnant == NextLineOf(RemnantBlockFrames)

RemnantSpec == InitWithin(MaxLineEvents) /\ [][NextRemnant]_vars

\* a step of a worker thread or of a stop_recording waiting in join
Scheduled ==
    \/ \E s \in Sessions : WriterWrite(s)
    \/ \E s \in Sessions : WriterFinalize(s)
    \/ \E s \in Sessions : TranscriberRecv(s)
    \/ \E s \in Sessions : TranscriberWindow(s)
    \/ \E s \in Sessions : TranscriberFinish(s)
    \/ StopReturn

\* Threads are scheduled: while one of them can take a step, a step is
\* taken.  (A step a thread can take stays possible until the thread takes
\* it, so this follows from each thread being scheduled.)  Callbacks and
\* commands come from outside and need not come.
FairSpec ==
    /\ InitWithin(MaxFairEvents)
    /\ [][Next]_vars
    /\ WF_vars(Scheduled)

(***************************************************************************)
(* Denoiser::process called by itself: one input of whole frames, given    *)
(* to one fresh Denoiser in two calls and to another in one call.          *)
(***************************************************************************)
\* the input of k frames, cut after n samples
DenoiseInputs ==
    {[k |-> k, n |-> n] : k \in 1..MaxDenoiseFrames,
                          n \in 0..(FrameSize * MaxDenoiseFrames)}

InitDenoise ==
    /\ AudioStateNew(0, 0)
    /\ \E i \in DenoiseInputs :
           /\ i.n <= FrameSize * i.k
           /\ call = [fn |-> "process",
                      input |-> CaptureBlock(0, FrameSize * i.k),
                      n |-> i.n,
                      calls |-> 0,
                      split |-> [out |-> <<>>, remainder |-> <<>>],
                      whole |-> [out |-> <<>>, remainder |-> <<>>, done |-> FALSE]]

\* the first call: the n samples before the cut
ProcessFirst ==
    /\ call.fn = "process"
    /\ call.calls = 0
    /\ \E r \in {process(call.split.remainder, Take(call.input, call.n))} :
           call' = [call EXCEPT !.calls = 1,
                                !.split = [out |-> call.split.out \o r.out,
                                           remainder |-> r.remainder]]
    /\ UNCHANGED app_vars

\* the second call: the samples after the cut
ProcessSecond ==
    /\ call.fn = "process"
    /\ call.calls = 1
    /\ \E r \in {process(call.split.remainder, Drop(call.input, call.n))} :
           call' = [call EXCEPT !.calls = 2,
                                !.split = [out |-> call.split.out \o r.out,
                                           remainder |-> r.remainder]]
    /\ UNCHANGED app_vars

\* the one call with the whole input
ProcessWhole ==
    /\ call.fn = "process"
    /\ ~call.whole.done
    /\ \E r \in {process(<<>>, call.input)} :
           call' = [call EXCEPT !.whole = [out |-> r.out,
                                           remainder |-> r.remainder,
                                           done |-> TRUE]]
    /\ UNCHANGED app_vars

NextDenoise == ProcessFirst \/ ProcessSecond \/ ProcessWhole

DenoiseSpec == InitDenoise /\ [][NextDenoise]_vars


(***************************************************************************)
(* The energy detector (vad.rs).  An amplitude is a whole number of        *)
(* silence thresholds; a probability is a whole number of hundredths.      *)
(***************************************************************************)
\* VADManager::new: threshold: 0.005, the unit of amplitude
threshold == 1
\* the probability 1.0
One == 100

\* audio.iter().map(|&x| x * x).sum()
SumSquares(audio) == SumSeq([i \in 1..Len(audio) |-> audio[i] * audio[i]])

\* the whole part of a square root
ISqrt(x) ==
    CHOOSE r \in 0..(One * MaxAmplitude) : r * r <= x /\ (r + 1) * (r + 1) > x

\* (sum_squares / audio.len() as f32).sqrt(), in hundredths of an amplitude
Rms(audio) == ISqrt((SumSquares(audio) * One * One) \div Len(audio))

\* the probability of a block with a defined RMS, the ramp between the
\* threshold and the top being `width` thresholds wide; the comparisons are
\* made on the squares, where they are exact
Probability(audio, width) ==
    IF SumSquares(audio) < threshold * threshold * Len(audio) THEN 0
    ELSE IF SumSquares(audio) > (threshold * 5) * (threshold * 5) * Len(audio)
         THEN One
    ELSE LET p == (Rms(audio) - One * threshold) \div (threshold * width)
         IN  IF p < One THEN p ELSE One

\* fault variant: the ramp is taken as wide as the top is high
is_speech_ramp_to_top(audio) ==
    IF audio = <<>> THEN One ELSE Probability(audio, 5)
\* VADManager::is_speech.  For an empty block sum_squares / 0.0 is 0.0 / 0.0,
\* not a number: neither comparison holds of it, and f32::min of it and 1.0
\* is 1.0
is_speech(audio) ==
    IF audio = <<>> THEN One ELSE Probability(audio, 4)

\* the samples of the blocks given to is_speech by itself
VadAmplitudes == {0, 1, 3, 5, MaxAmplitude}

VadBlocks ==
    UNION {[1..n -> VadAmplitudes] : n \in 0..MaxVadBlock}

InitVad ==
    /\ AudioStateNew(0, 0)
    /\ \E audio \in VadBlocks :
           call = [fn |-> "is_speech", audio |-> audio,
                   returned |-> FALSE, prob |-> 0]

IsSpeech ==
    /\ call.fn = "is_speech"
    /\ ~call.returned
    /\ call' = [call EXCEPT !.returned = TRUE, !.prob = is_speech(call.audio)]
    /\ UNCHANGED app_vars

NextVad == IsSpeech

VadSpec == InitVad /\ [][NextVad]_vars


(***************************************************************************)
(* get_speech_timestamps (vad.rs).  A time is kept as its number of        *)
(* samples, rounded as the conversion to f32 rounds it: the division by    *)
(* SAMPLE_RATE that follows is the same for every time and keeps their     *)
(* order.                                                                  *)
(***************************************************************************)
\* const SAMPLE_RATE: f32 = 16000.0, scaled by 128 as FRAME_SIZE is: a frame
\* lasts the 32 ms it lasts in the program
VadSampleRate == 125

RECURSIVE Pow2(_)
Pow2(n) == IF n = 0 THEN 1 ELSE 2 * Pow2(n - 1)

\* the spacing of the numbers an f32 has around n
RECURSIVE Ulp(_, _)
Ulp(n, step) ==
    IF n < step * Pow2(MantissaBits) THEN step ELSE Ulp(n, 2 * step)

\* n as f32: the nearest number the significand can hold, the even one of
\* two equally near
as_f32(n) ==
    LET step == Ulp(n, 1)
        q == n \div step
        r == n % step
    IN  IF 2 * r < step THEN q * step
        ELSE IF 2 * r > step THEN (q + 1) * step
        ELSE IF q % 2 = 0 THEN q * step
        ELSE (q + 1) * step

\* let frame_ms = (FRAME_SIZE as f32 / SAMPLE_RATE * 1000.0) as usize
frame_ms == (VadFrameSize * 1000) \div VadSampleRate
\* let padding_frames = padding_ms / frame_ms
padding_frames(padding_ms) == padding_ms \div frame_ms

\* audio.chunks(FRAME_SIZE): the last chunk may be shorter
Chunks(audio) ==
    [j \in 1..((Len(audio) + VadFrameSize - 1) \div VadFrameSize) |->
        SubSeq(audio, (j - 1) * VadFrameSize + 1,
               IF j * VadFrameSize < Len(audio) THEN j * VadFrameSize
               ELSE Len(audio))]

\* fault variant: the padding is not taken off
nothing_subtracted(a, b) == a
\* usize::saturating_sub
saturating_sub(a, b) == IF a > b THEN a - b ELSE 0

\* speech_start: None
None == -1

\* the locals of get_speech_timestamps before the loop
ScanStart ==
    [segments |-> <<>>, speech_start |-> None,
     consecutive_speech_frames |-> 0, silence_frames |-> 0]

\* one turn of the loop, for chunk number i: match (is_speech, speech_start)
ScanStep(st, speech, i, padding) ==
    IF speech /\ st.speech_start = None
    THEN [st EXCEPT !.consecutive_speech_frames = 1,
                    !.speech_start = i,
                    !.silence_frames = 0]
    ELSE IF speech
    THEN [st EXCEPT !.consecutive_speech_frames = @ + 1,
                    !.silence_frames = 0]
    ELSE IF st.speech_start # None
    THEN IF st.silence_frames + 1 > padding
         THEN [segments |->
                   IF st.consecutive_speech_frames >= MinSpeechFrames
                   THEN Append(st.segments,
                               <<as_f32(saturating_sub(st.speech_start, padding)
                                            * VadFrameSize),
                                 as_f32(i * VadFrameSize)>>)
                   ELSE st.segments,
               speech_start |-> None,
               consecutive_speech_frames |-> 0,
               silence_frames |-> 0]
         ELSE [st EXCEPT !.silence_frames = @ + 1]
    ELSE st

\* for (i, chunk) in audio.chunks(FRAME_SIZE).enumerate(), for the chunks
\* numbered from..to-1; is_speech = self.is_speech(chunk)? > 0.5
RECURSIVE ScanRange(_, _, _, _, _)
ScanRange(chunks, padding, from, to, st) ==
    IF to <= from THEN st
    ELSE IF to = from + 1
    THEN ScanStep(st, is_speech(chunks[from + 1]) * 2 > One, from, padding)
    ELSE CHOOSE end \in
             {ScanRange(chunks, padding, (from + to) \div 2, to, half) :
                 half \in {ScanRange(chunks, padding, from,
                                     (from + to) \div 2, st)}} : TRUE

\* the turns of the loop are taken in their order; the chunks from..to-1
\* are taken as a first and a second half to keep the evaluation shallow
Scan(chunks, padding, i, st) == ScanRange(chunks, padding, i, Len(chunks), st)

\* if let Some(start_idx) = speech_start: the segment the end of the
\* waveform closes
WithLastSegment(st, audio, padding) ==
    IF st.speech_start # None
           /\ st.consecutive_speech_frames >= MinSpeechFrames
    THEN Append(st.segments,
                <<as_f32(saturating_sub(st.speech_start, padding) * VadFrameSize),
                  as_f32(Len(audio))>>)
    ELSE st.segments

Larger(a, b) == IF a >= b THEN a ELSE b

\* fault variant: a segment that starts where the last one ends is kept apart
Overlaps(segment, last) == segment[1] < last[2]
\* if segment.0 <= last.1
Touches(segment, last) == segment[1] <= last[2]

\* one turn of the merging loop
MergeStep(merged, segment) ==
    IF merged # <<>> /\ Touches(segment, merged[Len(merged)])
    THEN [merged EXCEPT ![Len(merged)] =
              <<@[1], Larger(segment[2], @[2])>>]
    ELSE Append(merged, segment)

RECURSIVE MergeFrom(_, _)
MergeFrom(merged, segments) ==
    IF segments = <<>> THEN merged
    ELSE MergeFrom(MergeStep(merged, Head(segments)), Tail(segments))

\* fault variant: the pass ends with the first two segments it joins
RECURSIVE merge_first_pair(_)
merge_first_pair(segments) ==
    IF Len(segments) < 2 THEN segments
    ELSE IF Touches(segments[2], segments[1])
    THEN <<MergeStep(<<segments[1]>>, segments[2])[1]>> \o Drop(segments, 2)
    ELSE <<segments[1]>> \o merge_first_pair(Tail(segments))
\* the merge step: for segment in segments { ... }
merge(segments) == MergeFrom(<<>>, segments)

\* VADManager::get_speech_timestamps
get_speech_timestamps(audio, padding_ms) ==
    merge(WithLastSegment(Scan(Chunks(audio), padding_frames(padding_ms),
                               0, ScanStart),
                          audio, padding_frames(padding_ms)))

\* a frame of silence or of speech, by its sample
FrameLevels == {0, 5 * threshold}

\* the waveforms: frames of silence and of speech, the last frame whole or
\* of one sample
Waveform(levels, short) ==
    [j \in 1..(Len(levels) * VadFrameSize - short) |->
        levels[((j - 1) \div VadFrameSize) + 1]]

\* the paddings: from none to some frames, by half frames
PaddingValues == {(h * frame_ms) \div 2 : h \in 0..MaxPaddingHalfFrames}

InitTimestamps ==
    /\ AudioStateNew(0, 0)
    /\ \E k \in 0..MaxVadFrames :
       \E levels \in [1..k -> FrameLevels] :
       \E short \in {0, VadFrameSize - 1} :
       \E padding_ms \in PaddingValues :
           /\ short > 0 => k > 0
           /\ call = [fn |-> "get_speech_timestamps",
                      audio |-> Waveform(levels, short),
                      padding_ms |-> padding_ms,
                      pc |-> "called",
                      segments |-> <<>>,
                      merged_again |-> <<>>]

Timestamps ==
    /\ call.fn = "get_speech_timestamps"
    /\ call.pc = "called"
    /\ call' = [call EXCEPT
                   !.pc = "returned",
                   !.segments = get_speech_timestamps(call.audio, call.padding_ms)]
    /\ UNCHANGED app_vars

\* the merge step once more, on the list returned
MergeAgain ==
    /\ call.fn = "get_speech_timestamps"
    /\ call.pc = "returned"
    /\ call' = [call EXCEPT !.pc = "merged again",
                            !.merged_again = merge(call.segments)]
    /\ UNCHANGED app_vars

NextTimestamps == Timestamps \/ MergeAgain

TimestampSpec == InitTimestamps /\ [][NextTimestamps]_vars


(***************************************************************************)
(* get_speech_timestamps on the waveform of 3.0 s with speech from 1.0 s   *)
(* to 2.0 s and from 2.3 s to 3.0 s, with 500 ms of padding.               *)
(***************************************************************************)
\* the number of samples before the time of ms milliseconds
SamplesAt(ms) == (ms * VadSampleRate) \div 1000

\* the samples of the speech, and of what is not speech
SpeechLevels == {4 * threshold, 5 * threshold, MaxAmplitude}
QuietLevels == {0, threshold}

\* the waveform, by the sample of its lead, its two runs of speech and the
\* gap between them
TwoRuns(lead, first, gap, second) ==
    [j \in 1..SamplesAt(3000) |->
        IF j - 1 < SamplesAt(1000) THEN lead
        ELSE IF j - 1 < SamplesAt(2000) THEN first
        ELSE IF j - 1 < SamplesAt(2300) THEN gap
        ELSE second]

InitTwoRuns ==
    /\ AudioStateNew(0, 0)
    /\ \E lead \in QuietLevels, gap \in QuietLevels :
       \E first \in SpeechLevels, second \in SpeechLevels :
           call = [fn |-> "get_speech_timestamps",
                   audio |-> TwoRuns(lead, first, gap, second),
                   padding_ms |-> 500,
                   pc |-> "called",
                   segments |-> <<>>,
                   merged_again |-> <<>>]

TwoRunsSpec == InitTwoRuns /\ [][NextTimestamps]_vars


(***************************************************************************)
(* The loaders of the models: parakeet_loaders.rs, ParakeetManager's own   *)
(* loaders, which ParakeetManager::initialize calls, and the load of       *)
(* WhisperManager::initialize.  A machine is the target the program was    *)
(* built for, the execution providers that load the model on it, and       *)
(* whether nvidia-smi runs on it.                                          *)
(***************************************************************************)
Platforms == {"macos", "linux", "windows"}
Providers == {"Cuda", "DirectML", "Gpu", "Cpu"}

Loaded(backend) == [ok |-> TRUE, backend |-> backend]
LoadFailed == [ok |-> FALSE, backend |-> "none"]

\* parakeet_loaders.rs: the providers are tried where the target has them
try_gpu_nemotron(platform, loads) ==
    platform \in {"linux", "windows"} /\ "Cuda" \in loads

try_directml_nemotron(platform, loads) ==
    platform = "windows" /\ "DirectML" \in loads

try_cpu_nemotron(loads) == "Cpu" \in loads

\* as init_nemotron, but the failure of CUDA is returned
init_nemotron_or_fail(platform, loads) ==
    IF platform = "macos"
    THEN IF try_cpu_nemotron(loads) THEN Loaded("Cpu") ELSE LoadFailed
    ELSE IF try_gpu_nemotron(platform, loads) THEN Loaded("Cuda")
    ELSE LoadFailed

init_nemotron(platform, loads) ==
    IF platform = "macos"
    THEN IF try_cpu_nemotron(loads) THEN Loaded("Cpu") ELSE LoadFailed
    ELSE IF try_gpu_nemotron(platform, loads) THEN Loaded("Cuda")
    ELSE IF try_directml_nemotron(platform, loads) THEN Loaded("DirectML")
    ELSE IF try_cpu_nemotron(loads) THEN Loaded("Cpu")
    ELSE LoadFailed

\* parakeet.rs: ParakeetManager::init_nemotron, with CUDA and the CPU alone
ParakeetManager_init_nemotron(loads) ==
    IF "Cuda" \in loads THEN Loaded("Cuda")
    ELSE IF "Cpu" \in loads THEN Loaded("Cpu")
    ELSE LoadFailed

\* whisper.rs: the GPU context is named by whether nvidia-smi runs
detect_gpu_backend(nvidia_smi) == IF nvidia_smi THEN "Cuda" ELSE "Vulkan"

try_gpu(loads, nvidia_smi) ==
    IF "Gpu" \in loads THEN Loaded(detect_gpu_backend(nvidia_smi)) ELSE LoadFailed

try_cpu(loads) == IF "Cpu" \in loads THEN Loaded("Cpu") ELSE LoadFailed

\* try_gpu(..).or_else(|_| try_cpu(..)) of WhisperManager::initialize
initialize_context(loads, nvidia_smi) ==
    IF try_gpu(loads, nvidia_smi).ok THEN try_gpu(loads, nvidia_smi)
    ELSE try_cpu(loads)

LoaderNames == {"init_nemotron", "ParakeetManager::init_nemotron",
                "WhisperManager::initialize"}

InitLoaders ==
    /\ AudioStateNew(0, 0)
    /\ \E fn \in LoaderNames, platform \in Platforms, loads \in SUBSET Providers,
          nvidia_smi \in BOOLEAN :
           call = [fn |-> fn, platform |-> platform, loads |-> loads,
                   nvidia_smi |-> nvidia_smi, returned |-> FALSE,
                   result |-> LoadFailed]

LoaderReturns(fn, result) ==
    /\ call.fn = fn
    /\ ~call.returned
    /\ call' = [call EXCEPT !.returned = TRUE, !.result = result]
    /\ UNCHANGED app_vars

InitNemotron ==
    LoaderReturns("init_nemotron", init_nemotron(call.platform, call.loads))

ManagerInitNemotron ==
    LoaderReturns("ParakeetManager::init_nemotron",
                  ParakeetManager_init_nemotron(call.loads))

WhisperInitialize ==
    LoaderReturns("WhisperManager::initialize",
                  initialize_context(call.loads, call.nvidia_smi))

NextLoaders == InitNemotron \/ ManagerInitNemotron \/ WhisperInitialize

LoaderSpec == InitLoaders /\ [][NextLoaders]_vars


(***************************************************************************)
(* The mutexes of AudioState and the threads that lock them: each thread   *)
(* is the sequence of lock, try_lock, unlock and join steps of its code,   *)
(* with one turn of each loop, and the threads run in any interleaving.    *)
(* selected_input_device, which start_recording alone of these threads     *)
(* locks, is left out.                                                     *)
(***************************************************************************)
Lock(m) == [op |-> "lock", on |-> m]
TryLock(m) == [op |-> "try_lock", on |-> m]
Unlock(m) == [op |-> "unlock", on |-> m]
Join(thread) == [op |-> "join", on |-> thread]

\* a statement that locks m for its own length
Alone(m) == <<Lock(m), Unlock(m)>>

Mutexes == {"recording_handle", "whisper", "parakeet", "vad", "denoiser",
            "session_transcript", "active_engine", "last_recording_path"}

EngineMutex(engine) == IF engine = "Whisper" THEN "whisper" ELSE "parakeet"

\* recording.rs lines 48-63, 110 and 307
start_recording_locks(engine) ==
    Alone("active_engine") \o Alone(EngineMutex(engine))
        \o Alone("last_recording_path") \o Alone("session_transcript")
        \o Alone("denoiser") \o Alone("active_engine")
        \o Alone("recording_handle")

\* recording.rs lines 134-147 and 241-248 on the Whisper path, lines 188-212
\* and 249-256 on the Parakeet path: a window, then the remainder
transcriber_locks(engine) ==
    IF engine = "Whisper"
    THEN Alone("vad") \o Alone("whisper") \o Alone("whisper")
    ELSE <<Lock("parakeet"), Lock("session_transcript"),
           Unlock("session_transcript"), Unlock("parakeet"),
           Lock("parakeet"), Lock("session_transcript"),
           Unlock("session_transcript"), Unlock("parakeet")>>

\* recording.rs line 286: the callback tries the denoiser's lock
callback_locks == <<TryLock("denoiser"), Unlock("denoiser")>>

\* recording.rs lines 450-555: the guard of the slot lives to the return
stop_recording_locks(engine) ==
    <<Lock("recording_handle")>> \o Alone("denoiser")
        \o <<Join("writer"), Join("transcriber")>> \o Alone("active_engine")
        \o (IF engine = "Parakeet"
            THEN Alone("session_transcript")
            ELSE Alone("last_recording_path")
                 \o <<Lock("whisper"), Lock("vad"),
                      Unlock("whisper"), Unlock("vad")>>
                 \o Alone("whisper"))
        \o <<Unlock("recording_handle")>>

\* models.rs lines 24-34
switch_model_locks == Alone("recording_handle") \o Alone("whisper")

\* fault variant: the block of lines 159-175 locks the VAD first
benchmark_test_vad_first ==
    Alone("whisper") \o Alone("vad") \o Alone("whisper")
        \o <<Lock("vad"), Lock("whisper"), Unlock("whisper"), Unlock("vad")>>
        \o Alone("parakeet")

\* transcription.rs lines 125-188
benchmark_test_locks ==
    Alone("whisper") \o Alone("vad") \o Alone("whisper")
        \o <<Lock("whisper"), Lock("vad"), Unlock("vad"), Unlock("whisper")>>
        \o Alone("parakeet")

Threads == {"start_recording", "stop_recording", "switch_model",
            "benchmark_test", "callback", "writer", "transcriber"}

\* the steps of the threads when start_recording finds the engine `first`
\* active, the transcriber `second` and stop_recording `third`
Programs(first, second, third) ==
    [t \in Threads |->
        CASE t = "start_recording" -> start_recording_locks(first)
          [] t = "transcriber" -> transcriber_locks(second)
          [] t = "stop_recording" -> stop_recording_locks(third)
          [] t = "switch_model" -> switch_model_locks
          [] t = "benchmark_test" -> benchmark_test_locks
          [] t = "callback" -> callback_locks
          [] t = "writer" -> <<>>]

InitLocks ==
    /\ AudioStateNew(0, 0)
    /\ \E first \in {"Whisper", "Parakeet"}, second \in {"Whisper", "Parakeet"},
          third \in {"Whisper", "Parakeet"} :
           call = [fn |-> "locks",
                   steps |-> Programs(first, second, third),
                   pc |-> [t \in Threads |-> 1],
                   owner |-> [m \in Mutexes |-> "none"]]

Returned(t) == call.pc[t] > Len(call.steps[t])

\* can thread t take its next step: lock() waits for the owner, join() for
\* the end of the thread
CanStep(t) ==
    /\ ~Returned(t)
    /\ LET step == call.steps[t][call.pc[t]]
       IN  /\ step.op = "lock" => call.owner[step.on] = "none"
           /\ step.op = "join" => Returned(step.on)

\* the next step of thread t
Step(t) ==
    /\ call.fn = "locks"
    /\ CanStep(t)
    /\ LET step == call.steps[t][call.pc[t]]
           free == call.owner[step.on] = "none"
       IN  call' = [call EXCEPT
                       !.pc[t] = IF step.op = "try_lock" /\ ~free
                                 THEN @ + 2 ELSE @ + 1,
                       !.owner = IF step.op = "lock" \/ (step.op = "try_lock" /\ free)
                                 THEN [@ EXCEPT ![step.on] = t]
                                 ELSE IF step.op = "unlock"
                                 THEN [@ EXCEPT ![step.on] = "none"]
                                 ELSE @]
    /\ UNCHANGED app_vars

NextLocks == \E t \in Threads : Step(t)

LockSpec == InitLocks /\ [][NextLocks]_vars


(***************************************************************************)
(* One Denoiser over a session: process is called again and again with     *)
(* blocks of any length.                                                   *)
(***************************************************************************)
\* the most calls of Denoiser::process on one Denoiser, and the longest block
MaxProcessCalls == 4
MaxProcessBlock == 5

\* Denoiser::new, and nothing supplied or returned yet
InitStream ==
    /\ AudioStateNew(0, 0)
    /\ call = [fn |-> "stream",
               remainder |-> NewDenoiser.remainder,
               calls |-> 0,
               supplied |-> <<>>,
               returned |-> <<>>,
               output |-> <<>>,
               buffered |-> 0]

\* one call of Denoiser::process with the next n samples of the stream;
\* `buffered` is the length of the remainder the call found
ProcessBlock(n) ==
    /\ call.fn = "stream"
    /\ call.calls < MaxProcessCalls
    /\ LET input == CaptureBlock(Len(call.supplied), n)
           r == process(call.remainder, input)
       IN  call' = [call EXCEPT !.remainder = r.remainder,
                                !.calls = @ + 1,
                                !.supplied = @ \o input,
                                !.returned = @ \o r.out,
                                !.output = r.out,
                                !.buffered = Len(call.remainder)]
    /\ UNCHANGED app_vars

NextStream == \E n \in 0..MaxProcessBlock : ProcessBlock(n)

StreamSpec == InitStream /\ [][NextStream]_vars


(***************************************************************************)
(* Loading a model into a manager: WhisperManager::initialize,             *)
(* ParakeetManager::initialize and the commands switch_model and           *)
(* init_parakeet, on a machine whose model files, providers and model      *)
(* list are given.  A file of `corrupt` is on the disk and no provider     *)
(* loads it.                                                               *)
(***************************************************************************)
\* the most calls of initialize in one run
MaxInitializeCalls == 2

WhisperModelIds == {"none", "base"}
ParakeetModelIds == {"none", "ctc:ctc-en", "nemotron:gone"}
ModelLists == {<<>>, <<"nemotron:nemotron">>, <<"nemotron:nemotron", "ctc:ctc-en">>}

\* WhisperManager::new and ParakeetManager::new
WhisperManagerNew == [context |-> "none", current_model |-> "none", backend |-> "Cpu"]
ParakeetManagerNew == [model |-> "none", model_name |-> "none", backend |-> "Cpu"]

InitializeFailed(manager) == [ok |-> FALSE, manager |-> manager]
Initialized(manager) == [ok |-> TRUE, manager |-> manager]

\* the providers that load the file of a model
LoadsOf(machine, model) == IF model \in machine.corrupt THEN {} ELSE machine.loads

\* fault variant: the name of the model is stored before the model is loaded
initialize_naming_first(manager, model_id, machine) ==
    LET target_model == IF model_id = "none" THEN "tiny.en-q5_1" ELSE model_id
        named == [manager EXCEPT !.current_model = target_model]
        loaded == initialize_context(LoadsOf(machine, target_model), machine.nvidia_smi)
    IN  IF target_model \notin machine.files THEN InitializeFailed(named)
        ELSE IF ~loaded.ok THEN InitializeFailed(named)
        ELSE Initialized([context |-> target_model, current_model |-> target_model,
                          backend |-> loaded.backend])

\* WhisperManager::initialize: the file is looked for, the context is
\* loaded, and then the three fields are stored
WhisperManager_initialize(manager, model_id, machine) ==
    LET target_model == IF model_id = "none" THEN "tiny.en-q5_1" ELSE model_id
        loaded == initialize_context(LoadsOf(machine, target_model), machine.nvidia_smi)
    IN  IF target_model \notin machine.files THEN InitializeFailed(manager)
        ELSE IF ~loaded.ok THEN InitializeFailed(manager)
        ELSE Initialized([context |-> target_model, current_model |-> target_model,
                          backend |-> loaded.backend])

\* ParakeetManager::initialize: the list of the models on the disk, the
\* model of the id (the first one of the list without an id), its path, its
\* loader (the loaders of the four model types all try CUDA and then the
\* CPU), and then the three fields are stored
ParakeetManager_initialize(manager, model_id, machine) ==
    IF machine.available = <<>> THEN InitializeFailed(manager)
    ELSE LET target_id == IF model_id = "none" THEN machine.available[1] ELSE model_id
             loaded == ParakeetManager_init_nemotron(LoadsOf(machine, target_id))
         IN  IF \A i \in 1..Len(machine.available) : machine.available[i] # target_id
             THEN InitializeFailed(manager)
             ELSE IF target_id \notin machine.files THEN InitializeFailed(manager)
             ELSE IF ~loaded.ok THEN InitializeFailed(manager)
             ELSE Initialized([model |-> target_id, model_name |-> target_id,
                               backend |-> loaded.backend])

Machines ==
    [files : SUBSET {"tiny.en-q5_1", "base", "nemotron:nemotron", "ctc:ctc-en"},
     corrupt : SUBSET {"base", "ctc:ctc-en"},
     loads : {{}, {"Cpu"}, {"Gpu", "Cuda", "Cpu"}},
     nvidia_smi : {FALSE},
     available : ModelLists]

\* the managers and the selector as AudioState is built
InitInitialize ==
    /\ AudioStateNew(0, 0)
    /\ \E machine \in Machines :
           call = [fn |-> "initialize",
                   machine |-> machine,
                   whisper |-> WhisperManagerNew,
                   parakeet |-> ParakeetManagerNew,
                   active_engine |-> "Whisper",
                   calls |-> 0,
                   last |-> [cmd |-> "none", ok |-> TRUE,
                             whisper |-> WhisperManagerNew,
                             parakeet |-> ParakeetManagerNew,
                             active_engine |-> "Whisper"]]

\* what the command found, for the comparison after it
Before(cmd, ok) ==
    [cmd |-> cmd, ok |-> ok, whisper |-> call.whisper, parakeet |-> call.parakeet,
     active_engine |-> call.active_engine]

\* models.rs lines 33-34 (no recording is going on)
switch_model(model_id) ==
    /\ call.fn = "initialize"
    /\ call.calls < MaxInitializeCalls
    /\ LET r == WhisperManager_initialize(call.whisper, model_id, call.machine)
       IN  call' = [call EXCEPT !.whisper = r.manager,
                                !.calls = @ + 1,
                                !.last = Before("switch_model", r.ok)]
    /\ UNCHANGED app_vars

\* models.rs lines 45-53: the selector is written after the `?`
init_parakeet(model_id) ==
    /\ call.fn = "initialize"
    /\ call.calls < MaxInitializeCalls
    /\ LET r == ParakeetManager_initialize(call.parakeet, model_id, call.machine)
       IN  call' = [call EXCEPT !.parakeet = r.manager,
                                !.active_engine = IF r.ok THEN "Parakeet" ELSE @,
                                !.calls = @ + 1,
                                !.last = Before("init_parakeet", r.ok)]
    /\ UNCHANGED app_vars

\* settings.rs lines 26-36
set_active_engine_whisper ==
    /\ call.fn = "initialize"
    /\ call.calls < MaxInitializeCalls
    /\ call.active_engine = "Parakeet"
    /\ call' = [call EXCEPT !.active_engine = "Whisper",
                            !.calls = @ + 1,
                            !.last = Before("set_active_engine", TRUE)]
    /\ UNCHANGED app_vars

NextInitialize ==
    \/ \E model_id \in WhisperModelIds : switch_model(model_id)
    \/ \E model_id \in ParakeetModelIds : init_parakeet(model_id)
    \/ set_active_engine_whisper

InitializeSpec == InitInitialize /\ [][NextInitialize]_vars


(***************************************************************************)
(* The hotkey listener (hotkeys/listener.rs) and set_hotkey: key events of *)
(* the keyboard in any order, and changes of the binding between them.     *)
(***************************************************************************)
\* the most key events and set_hotkey calls in one run
MaxKeyEvents == 5

\* keys of the keyboard; key_to_code has no code for KeyA
Keys == {"ControlLeft", "MetaLeft", "F1", "KeyA"}
NoCode == "none"
key_to_code(key) == IF key = "KeyA" THEN NoCode ELSE key

\* HotkeyBinding::default, and the bindings given to set_hotkey
DefaultBinding == {"ControlLeft", "MetaLeft"}
Bindings == {DefaultBinding, {"F1"}, {}}

\* start_hotkey_listener on AudioState::new: nothing held, no recording;
\* `down` is the keys that are down on the keyboard, `trigger` the binding
\* with which the last hotkey-start-recording was emitted
InitHotkeys ==
    /\ AudioStateNew(0, 0)
    /\ call = [fn |-> "hotkeys",
               hotkey_config |-> DefaultBinding,
               held_keys |-> {},
               recording_active |-> FALSE,
               down |-> {},
               trigger |-> {},
               emitted |-> "none",
               events |-> 0]

\* EventType::KeyPress, lines 58-72; a key that is held down repeats
KeyPress(key) ==
    /\ call.fn = "hotkeys"
    /\ call.events < MaxKeyEvents
    /\ LET config == call.hotkey_config
           code == key_to_code(key)
           held == IF code # NoCode /\ code \in config
                   THEN call.held_keys \cup {code} ELSE call.held_keys
           all_held == config \subseteq held
           starts == /\ code # NoCode
                     /\ all_held /\ config # {} /\ ~call.recording_active
       IN  call' = [call EXCEPT
                       !.held_keys = held,
                       !.recording_active = IF starts THEN TRUE ELSE @,
                       !.trigger = IF starts THEN config ELSE @,
                       !.emitted = IF starts THEN "hotkey-start-recording" ELSE "none",
                       !.down = @ \cup {key},
                       !.events = @ + 1]
    /\ UNCHANGED app_vars

\* EventType::KeyRelease, lines 74-85
KeyRelease(key) ==
    /\ call.fn = "hotkeys"
    /\ call.events < MaxKeyEvents
    /\ key \in call.down
    /\ LET config == call.hotkey_config
           code == key_to_code(key)
           stops == /\ code # NoCode
                    /\ call.recording_active /\ code \in config
       IN  call' = [call EXCEPT
                       !.held_keys = @ \ {code},
                       !.recording_active = IF stops THEN FALSE ELSE @,
                       !.emitted = IF stops THEN "hotkey-stop-recording" ELSE "none",
                       !.down = @ \ {key},
                       !.events = @ + 1]
    /\ UNCHANGED app_vars

\* settings.rs, set_hotkey
set_hotkey(binding) ==
    /\ call.fn = "hotkeys"
    /\ call.events < MaxKeyEvents
    /\ call' = [call EXCEPT !.hotkey_config = binding,
                            !.emitted = "none",
                            !.events = @ + 1]
    /\ UNCHANGED app_vars

NextHotkeys ==
    \/ \E key \in Keys : KeyPress(key)
    \/ \E key \in Keys : KeyRelease(key)
    \/ \E binding \in Bindings : set_hotkey(binding)

HotkeySpec == InitHotkeys /\ [][NextHotkeys]_vars


(***************************************************************************)
(* Properties.                                                             *)
(***************************************************************************)
\* the samples of a sequence of blocks, and how many they are
RECURSIVE Flatten(_)
Flatten(ss) == IF ss = <<>> THEN <<>> ELSE Head(ss) \o Flatten(Tail(ss))

RECURSIVE SumLen(_)
SumLen(ss) == IF ss = <<>> THEN 0 ELSE Len(Head(ss)) + SumLen(Tail(ss))

NonZero(v) == v # 0

RECURSIVE IsSubseq(_, _)
IsSubseq(a, b) ==
    IF a = <<>> THEN TRUE
    ELSE IF b = <<>> THEN FALSE
    ELSE IF Head(a) = Head(b) THEN IsSubseq(Tail(a), Tail(b))
    ELSE IsSubseq(a, Tail(b))

Playing == {s \in Sessions : sessions[s].stream = "playing"}

StopReturns == stop.pc = "join" /\ stop'.pc = "idle"

\* C1: at most one recording session exists at any time: no second stream
\* is ever open beside the one of the session in the slot.
C1_AtMostOneSession == Cardinality(Playing) <= 1

C3_StopTextIsTheEmittedChunks ==
    [][(/\ StopReturns
        /\ active_engine = "Parakeet"
        /\ sessions[stop.session].active_engine = "Parakeet"
        /\ session_transcript # <<>>)
       => /\ sessions[stop.session].decoded = sessions[stop.session].emitted
          /\ returned'.text =
                 clean_transcript(Flatten(sessions[stop.session].emitted))]_vars

\* C4: a switch_model call that finds a handle in the slot returns "Cannot
\* switch models while recording" and changes nothing of the Whisper manager.
C4_SwitchRefusedWhileRecording ==
    [][\A model_id \in WhisperModels :
          (SwitchCall(model_id) /\ recording_handle # NoSession)
          => /\ returned' = Err("switch_model",
                                <<"Cannot switch models while recording">>)
             /\ switch'.pc = "idle"
             /\ whisper' = whisper]_vars

\* switch_model was refused and the session is still in the slot
C4_Refused ==
    /\ returned = Err("switch_model", <<"Cannot switch models while recording">>)
    /\ recording_handle # NoSession
    /\ sessions[recording_handle].stream = "playing"

\* C5: when stop_recording takes a session out of the slot, the active
\* engine and the models loaded in both managers are those that were there
\* when the session was put in.
C5_EnginesUnchangedOverSession ==
    [][(recording_handle # NoSession /\ recording_handle' = NoSession)
       => EngineSelection = sessions[recording_handle].at_store]_vars

\* C6: when stop_recording returns after taking a session, the writer and
\* the transcriber of that session have ended, and nothing of the session
\* is left to run.
C6_WorkersEndedAtReturn ==
    [][StopReturns
       => /\ sessions[stop.session].writer_thread = "done"
          /\ sessions[stop.session].transcriber_thread = "done"
          /\ sessions'[stop.session] = FreshSession]_vars

\* stop_recording has returned a result for a session it took
C6_StopReturned ==
    /\ stop.pc = "idle"
    /\ returned.cmd = "stop_recording"
    /\ returned.text # <<"Not recording">>

\* C7: once stop_recording has taken a session, it eventually returns, with
\* the slot empty and both workers of the session ended.
C7_StopCompletes ==
    (stop.pc = "join")
        ~> (/\ stop.pc = "idle"
            /\ returned.cmd = "stop_recording"
            /\ recording_handle = NoSession)

\* stop_recording has taken a session whose workers both still have blocks
\* to receive
C7_TakenWithBacklog ==
    /\ stop.pc = "join"
    /\ sessions[stop.session].file_rx # <<>>
    /\ Len(sessions[stop.session].whisper_rx) >= 2

\* C8: the first block put on the transcription channel of a session, and
\* so the first block its transcriber receives, is floor(0.5 x sample_rate)
\* zeros.
C8_LeadInFirst ==
    \A s \in Sessions :
        LET me == sessions[s]
        IN  me.transcriber_thread # "none" =>
               /\ me.sent # <<>>
               /\ me.sent[1] = Zeros(me.sample_rate \div 2)
               /\ Len(me.whisper_rx) <= Len(me.sent)
               /\ me.whisper_rx =
                      SubSeq(me.sent, Len(me.sent) - Len(me.whisper_rx) + 1,
                             Len(me.sent))

\* the transcriber has received the lead-in and a captured block came after
C8_LeadInReceived ==
    \E s \in Sessions :
        /\ sessions[s].captured # <<>>
        /\ sessions[s].buffer # <<>>
        /\ Len(sessions[s].whisper_rx) < Len(sessions[s].sent)
        /\ sessions[s].buffer[1] = 0

\* C9: the blocks the writer gets are the callback's blocks, unchanged and
\* in callback order, and the captured samples on the transcription channel
\* come from the same blocks (mono-mixed, denoised or not) in the same order.
C9_SameBlocksSameOrder ==
    \A s \in Sessions :
        LET me == sessions[s]
            mono == Flatten([i \in 1..Len(me.captured) |->
                                MonoMix(me.captured[i], me.channels)])
            fed == SelectSeq(Flatten(me.sent), NonZero)
        IN  /\ me.wav \o me.file_rx = me.captured
            /\ IsSubseq([i \in 1..Len(fed) |-> Undenoised(fed[i])], mono)

\* C10: in every state, a stream is open exactly when the slot holds its
\* session's handle.
C10_StreamIffHandle ==
    \A s \in Sessions : sessions[s].stream = "playing" <=> recording_handle = s

\* C10, amended: that holds in every state in which start_recording is not
\* between playing the stream and storing the handle.
C10_StreamIffHandleOutsideStore ==
    start.pc # "store" => C10_StreamIffHandle

\* a start_recording that failed to open its stream has returned
C10_FailedStart ==
    /\ start.pc = "idle"
    /\ returned = Err("start_recording", <<"stream error">>)

\* C11: of the stop_recording calls made on one open session, one takes the
\* session out of the slot, and it takes a session no call took before it
\* (its stream playing, its senders alive, its workers not joined); while it
\* owns the session the slot does not hold it; a call that finds the slot
\* empty returns "Not recording" and touches no stream, channel, worker or
\* denoiser.
C11_OneStopTakesTheSession ==
    [][/\ stop.pc = "join" => recording_handle # stop.session
       /\ (StopCall /\ recording_handle = NoSession)
          => /\ returned' = Err("stop_recording", <<"Not recording">>)
             /\ stop'.pc = "idle"
             /\ UNCHANGED <<recording_handle, sessions, denoiser,
                            session_transcript, whisper, parakeet>>
       /\ (StopCall /\ recording_handle # NoSession)
          => /\ sessions[recording_handle].stream = "playing"
             /\ sessions[recording_handle].file_tx
             /\ sessions[recording_handle].whisper_tx
             /\ recording_handle' = NoSession
             /\ stop'.session = recording_handle]_vars

\* a first stop_recording has taken the session, torn it down and returned;
\* a second, which came while the first was at work, is at the slot's lock
C11_SecondStopAtTheLock ==
    /\ stop.pc = "idle"
    /\ stop.waiting
    /\ recording_handle = NoSession
    /\ returned.cmd = "stop_recording"
    /\ returned.ok

\* C12: a stop_recording that took a session of which a worker panicked
\* does not panic itself: it returns.
C12_StopSurvivesWorkerPanic ==
    [][(/\ stop.pc = "join"
        /\ stop'.pc # "join"
        /\ \/ sessions[stop.session].writer_thread = "panicked"
           \/ sessions[stop.session].transcriber_thread = "panicked")
       => returned' # Panicked("stop_recording")]_vars

\* C13: a window for which transcribe_chunk returned an error emits no
\* event and adds nothing to the session transcript; the window is used up,
\* the blocks still in the channel stay there, and the transcriber goes on
\* in its loop.
C13_ErrorSkipsTheWindow ==
    [][\A s \in Sessions :
          TranscriberWindowWith(s, TRUE, Failed)
          => /\ sessions'[s].emitted = sessions[s].emitted
             /\ session_transcript' = session_transcript
             /\ sessions'[s].transcriber_thread \in {"recv", "window"}
             /\ Len(sessions'[s].buffer) < Len(sessions[s].buffer)
             /\ sessions'[s].whisper_rx = sessions[s].whisper_rx]_vars

\* a Parakeet session with no model loaded, so that every call fails: the
\* transcriber has used up a window and waits for the next block
C13_WorkerWentOnAfterError ==
    \E s \in Sessions :
        /\ sessions[s].active_engine = "Parakeet"
        /\ parakeet.model_name = "none"
        /\ sessions[s].transcriber_thread = "recv"
        /\ sessions[s].captured # <<>>
        /\ sessions[s].whisper_rx = <<>>
        /\ SumLen(sessions[s].sent) >= parakeet_chunk_size(sessions[s].sample_rate)
        /\ Len(sessions[s].buffer) < parakeet_chunk_size(sessions[s].sample_rate)
        /\ sessions[s].emitted = <<>>

\* C14: a start_recording that finds a preferred device configured and no
\* input device of that name returns an error, whatever other devices the
\* host has, and leaves the slot, the denoiser slot, the session
\* transcript, the last recording path, the engines and every stream, file,
\* channel and worker as they were.
C14_MissingPreferredDeviceFails ==
    [][\A preferred \in PreferredDevices \ {NoDevice}, devices \in HostDevices :
          (/\ preferred \notin devices
           /\ returned' # returned
           /\ \E s \in Sessions, denoise \in BOOLEAN, channels \in ChannelCounts :
                  StartCall(s, denoise, channels, preferred, devices))
          => /\ returned' = Err("start_recording", <<"Input device not found">>)
             /\ start'.pc = "idle"
             /\ UNCHANGED <<recording_handle, denoiser, session_transcript,
                            last_recording_path, whisper, parakeet,
                            active_engine, sessions>>]_vars

\* the preferred device was not found while a session with a denoiser was
\* open, and the session is still there
C14_RefusedBesideASession ==
    /\ returned = Err("start_recording", <<"Input device not found">>)
    /\ start.pc = "idle"
    /\ recording_handle # NoSession
    /\ sessions[recording_handle].stream = "playing"
    /\ denoiser.some

\* C15: whenever the slot is empty and neither start_recording nor
\* stop_recording is at work, the denoiser slot is empty.
C15_DenoiserEmptyOutsideSessions ==
    (recording_handle = NoSession /\ start.pc = "idle" /\ stop.pc = "idle")
        => ~denoiser.some

\* C16: the callback of a playing stream can always run to its end,
\* whatever block it is given, whoever holds the denoiser's lock and
\* whatever the workers and the commands are doing.
C16_CallbackNeverWaits ==
    \A s \in Sessions, frames \in BlockFrames, locked \in BOOLEAN :
        (/\ sessions[s].stream = "playing"
         /\ count.events < count.limit
         /\ locked => DenoiserLockContended(s))
        => ENABLED Callback(s, frames, locked)

\* the transcriber is at an engine call with a window of captured audio,
\* and a block the callback sent since waits in the channel
C16_SentDuringEngineCall ==
    \E s \in Sessions :
        /\ sessions[s].stream = "playing"
        /\ sessions[s].transcriber_thread = "window"
        /\ Len(sessions[s].captured) >= 2
        /\ sessions[s].whisper_rx # <<>>
        /\ sessions[s].whisper_rx[Len(sessions[s].whisper_rx)] =
               sessions[s].captured[Len(sessions[s].captured)]

\* C17: the two calls of n and FrameSize*k - n samples give, one after the
\* other, the output of the one call with all FrameSize*k samples: the same
\* frames went through the frame processor in the same order.
C17_SplitGivesTheSameOutput ==
    (call.fn = "process" /\ call.calls = 2 /\ call.whole.done)
        => call.split.out = call.whole.out

\* both ways are done for an input of several frames that was cut inside a
\* frame
C17_CutInsideAFrame ==
    /\ call.fn = "process"
    /\ call.calls = 2
    /\ call.whole.done
    /\ Len(call.input) >= 2 * FrameSize
    /\ call.n % FrameSize # 0
    /\ Len(call.whole.out) = Len(call.input)

AllZero(audio) == \A i \in 1..Len(audio) : audio[i] = 0

\* the RMS of the block is at least m thresholds
RmsAtLeast(audio, m) ==
    /\ audio # <<>>
    /\ SumSquares(audio) >= m * m * threshold * threshold * Len(audio)

\* C18, as stated: is_speech returns 0.0 for every block of all-zero samples
\* and 1.0 for every block whose RMS is at least 5 times the threshold.
C18_ZeroAndTop ==
    (call.fn = "is_speech" /\ call.returned)
        => /\ AllZero(call.audio) => call.prob = 0
           /\ RmsAtLeast(call.audio, 5) => call.prob = One

\* C18, amended: is_speech returns 0.0 for every block of all-zero samples
\* that has a sample, and 1.0 for every block whose RMS is at least 5 times
\* the threshold, the RMS of exactly 5 times the threshold included.
C18_ZeroAndTopOfNonEmpty ==
    (call.fn = "is_speech" /\ call.returned)
        => /\ (call.audio # <<>> /\ AllZero(call.audio)) => call.prob = 0
           /\ RmsAtLeast(call.audio, 5) => call.prob = One

\* is_speech has returned for a block of unequal samples whose RMS is
\* exactly 5 times the threshold
C18_ExactlyAtTheTop ==
    /\ call.fn = "is_speech"
    /\ call.returned
    /\ Len(call.audio) >= 2
    /\ call.audio[1] # call.audio[2]
    /\ SumSquares(call.audio) = (threshold * 5) * (threshold * 5) * Len(call.audio)

\* C19: the list get_speech_timestamps returns is in order of time and its
\* segments lie apart: each starts no later than it ends, and strictly
\* after the one before it ends.
C19_SegmentsOrderedAndApart ==
    (call.fn = "get_speech_timestamps" /\ call.pc # "called")
        => /\ \A i \in 1..Len(call.segments) :
                  call.segments[i][1] <= call.segments[i][2]
           /\ \A i \in 1..(Len(call.segments) - 1) :
                  call.segments[i][2] < call.segments[i + 1][1]

\* with padding, two segments were returned for a waveform whose last frame
\* is short; the end of the waveform closes the second, and the time of its
\* end was rounded
C19_TwoSegmentsToTheEnd ==
    /\ call.fn = "get_speech_timestamps"
    /\ call.pc = "returned"
    /\ call.padding_ms >= frame_ms
    /\ Len(call.audio) % VadFrameSize # 0
    /\ Len(call.segments) = 2
    /\ call.segments[2][2] = as_f32(Len(call.audio))
    /\ call.segments[2][2] # Len(call.audio)

\* C20: the merge step, applied again to the list get_speech_timestamps
\* returned, gives the same list.
C20_MergeAgainChangesNothing ==
    (call.fn = "get_speech_timestamps" /\ call.pc = "merged again")
        => call.merged_again = call.segments

\* the merge step was applied again to a list in which it had joined three
\* segments into one
C20_ThreeJoinedMergedAgain ==
    /\ call.fn = "get_speech_timestamps"
    /\ call.pc = "merged again"
    /\ Len(call.segments) = 1
    /\ Len(call.audio) >= 5 * MinSpeechFrames * VadFrameSize
    /\ \E st \in {Scan(Chunks(call.audio), padding_frames(call.padding_ms),
                       0, ScanStart)} :
           Len(WithLastSegment(st, call.audio,
                               padding_frames(call.padding_ms))) = 3

CapturedFrames(session) == SumLen(session.captured) \div session.channels

\* C22: when the transcriber of a session without denoising that captured
\* 1.5 s comes to its end, what is left in its buffer is shorter than a
\* window and longer than 0.1 s, so that the engine is called on it, with
\* either engine.
C22_PartialWindowDecoded ==
    [][\A s \in Sessions :
          (/\ TranscriberFinish(s)
           /\ ~denoiser.some
           /\ 2 * CapturedFrames(sessions[s]) = 3 * sessions[s].sample_rate
           /\ Len(sessions[s].buffer) < chunk_size(sessions[s].sample_rate))
          => /\ sessions[s].buffer # <<>>
             /\ Len(sessions[s].buffer) < WindowSize(sessions[s])
             /\ LongerThanMinimum(Len(sessions[s].buffer),
                                  sessions[s].sample_rate)]_vars

\* the channel of a Parakeet session that captured 1.5 s is closed and
\* empty, and its transcriber has decoded two windows and holds the rest
C22_ParakeetAtTheEnd ==
    \E s \in Sessions :
        /\ Disconnected(sessions[s])
        /\ sessions[s].active_engine = "Parakeet"
        /\ 2 * CapturedFrames(sessions[s]) = 3 * sessions[s].sample_rate
        /\ sessions[s].sample_rate = LineSampleRate
        /\ Len(sessions[s].buffer)
               = SumLen(sessions[s].sent)
                   - 2 * parakeet_chunk_size(sessions[s].sample_rate)

\* C23: when stop_recording takes the Whisper branch, has loaded the
\* recording and get_speech_timestamps finds no segment in it, it returns
\* "[silence]" and transcribe_audio_data is not called: nothing the engine
\* could return is in the result.
C23_SilenceIsNotDecoded ==
    [][\A r \in EngineOutcomes :
          (/\ StopReturnWith(TRUE, TRUE, r)
           /\ active_engine = "Whisper"
           /\ last_recording_path # NoSession
           /\ ~whisper.poisoned)
          => /\ returned' = Ok("stop_recording", SilenceMarker)
             /\ whisper' = whisper]_vars

\* stop_recording has returned "[silence]", the Whisper model being loaded
\* and the recording saved
C23_SilenceReturned ==
    /\ returned = Ok("stop_recording", SilenceMarker)
    /\ stop.pc = "idle"
    /\ active_engine = "Whisper"
    /\ whisper.current_model # "none"
    /\ last_recording_path # NoSession

\* the tiers a loader has, in the order of the claim and in its own, and
\* whether a tier loads the model on the machine of the call
ClaimedTiers == <<"Cuda", "DirectML", "Cpu">>

TiersOf(fn) ==
    CASE fn = "init_nemotron" -> <<"Cuda", "DirectML", "Cpu">>
      [] fn = "ParakeetManager::init_nemotron" -> <<"Cuda", "Cpu">>
      [] fn = "WhisperManager::initialize" -> <<"Gpu", "Cpu">>

TierLoads(tier) ==
    /\ tier \in call.loads
    /\ call.fn = "init_nemotron" /\ tier = "Cuda" => call.platform # "macos"
    /\ call.fn = "init_nemotron" /\ tier = "DirectML" => call.platform = "windows"

\* the backend a loader reports for a tier
ReportedAs(tier) ==
    IF call.fn = "WhisperManager::initialize" /\ tier = "Gpu"
    THEN IF call.nvidia_smi THEN "Cuda" ELSE "Vulkan"
    ELSE tier

\* the result is the first of the tiers that loads, or a failure when none does
FirstOf(tiers) ==
    /\ call.result.ok <=> \E i \in 1..Len(tiers) : TierLoads(tiers[i])
    /\ call.result.ok =>
          \E i \in 1..Len(tiers) :
             /\ TierLoads(tiers[i])
             /\ \A j \in 1..(i - 1) : ~TierLoads(tiers[j])
             /\ call.result.backend = ReportedAs(tiers[i])

\* C24, as stated: every loader returns the first of CUDA, DirectML and the
\* CPU that loads the model and reports that tier as the backend, and fails
\* if and only if the CPU fails after the tiers before it.
C24_CudaThenDirectMLThenCpu ==
    call.fn \in LoaderNames /\ call.returned =>
        FirstOf(ClaimedTiers)

\* C24, amended: every loader returns the first of its own tiers that loads
\* the model (CUDA, DirectML, CPU for parakeet_loaders.rs; CUDA, CPU for
\* ParakeetManager; the GPU context, CPU for Whisper), reports that tier as
\* the backend, the GPU context of Whisper as CUDA when nvidia-smi runs and as
\* Vulkan when not, and fails if and only if no tier loads, the CPU the last.
C24_FirstOfItsOwnTiers ==
    call.fn \in LoaderNames /\ call.returned => FirstOf(TiersOf(call.fn))

\* a loader has returned the CPU after a GPU tier of its own that the machine
\* has no provider for
C24_FellBackToCpu ==
    /\ call.fn \in LoaderNames
    /\ call.returned
    /\ call.result = Loaded("Cpu")
    /\ call.platform = "windows"
    /\ call.loads = {"Cpu"}


\* C25: on the Whisper path a full window that is_speech holds to be at most
\* 0.5 is taken off the buffer with no engine call (no text is counted, the
\* context of Whisper is as it was) and no transcription-chunk event, and
\* after the channel has closed no full window is left to be decoded
\* unchecked.
C25_OnlySpeechIsDecoded ==
    [][\A s \in Sessions :
          /\ (\E r \in EngineOutcomes : TranscriberWindowWith(s, FALSE, r))
                 /\ sessions[s].active_engine = "Whisper"
              => /\ whisper' = whisper
                 /\ count' = count
                 /\ sessions'[s].emitted = sessions[s].emitted
                 /\ sessions'[s].decoded = sessions[s].decoded
                 /\ Len(sessions'[s].buffer) <=
                       Len(sessions[s].buffer) - chunk_size(sessions[s].sample_rate)
          /\ TranscriberFinish(s) /\ sessions[s].active_engine = "Whisper"
              => Len(sessions[s].buffer) < chunk_size(sessions[s].sample_rate)]_vars

\* a Whisper session with a model loaded has taken a full window of captured
\* audio off its buffer, emitted nothing and left the context empty
C25_WindowDiscarded ==
    \E s \in Sessions :
        /\ sessions[s].active_engine = "Whisper"
        /\ whisper.current_model # "none"
        /\ ~whisper.poisoned
        /\ sessions[s].transcriber_thread = "recv"
        /\ SumLen(sessions[s].sent) >= chunk_size(sessions[s].sample_rate)
        /\ Len(sessions[s].buffer) + SumLen(sessions[s].whisper_rx)
              <= SumLen(sessions[s].sent) - chunk_size(sessions[s].sample_rate)
        /\ sessions[s].emitted = <<>>
        /\ whisper.last_transcript = <<>>


\* C26: the samples waiting in the transcription channel of a session and in
\* the buffer of its transcriber are never more than two windows.
C26_BacklogWithinTwoWindows ==
    \A s \in Sessions :
        SumLen(sessions[s].whisper_rx) + Len(sessions[s].buffer)
            <= 2 * WindowSize(sessions[s])


\* the transcriber of s decodes what is left in its buffer to a text
FinishDecoding(s) ==
    TranscriberFinish(s) /\ count'.texts > count.texts

\* C27: once the transcription channel has closed, the engine is called on
\* what is left in the buffer, less than a window, if and only if the buffer
\* is not empty and holds more than 0.1 s: when it is, a loaded engine may
\* decode it to a text; when not, nothing of the engines, the session
\* transcript or the texts counted changes.
C27_RemnantOverATenthOfASecond ==
    [][\A s \in Sessions :
          TranscriberFinish(s) /\
          Len(sessions[s].buffer) < chunk_size(sessions[s].sample_rate)
          => LET me == sessions[s]
                 calls == me.buffer # <<>> /\
                          Len(me.buffer) * 10 > me.sample_rate
                 loaded == IF me.active_engine = "Whisper"
                           THEN whisper.current_model # "none" /\ ~whisper.poisoned
                           ELSE parakeet.model_name # "none" /\ ~parakeet.poisoned
             IN  /\ calls /\ loaded /\ count.texts < MaxTexts
                       => ENABLED FinishDecoding(s)
                 /\ ~calls => /\ whisper' = whisper
                              /\ parakeet' = parakeet
                              /\ session_transcript' = session_transcript
                              /\ count' = count]_vars

\* a transcriber that had a model loaded is done and has left one sample, a
\* tenth of a second, in its buffer undecoded
C27_ATenthOfASecondLeft ==
    \E s \in Sessions :
        /\ sessions[s].transcriber_thread = "done"
        /\ Len(sessions[s].buffer) = 1
        /\ Len(sessions[s].buffer) * 10 = sessions[s].sample_rate
        /\ sessions[s].active_engine = "Parakeet"
        /\ parakeet.model_name # "none"
        /\ count.texts < MaxTexts


\* is frame number i of the audio, from 0, one of speech
SpeechFrame(audio, i) == is_speech(Chunks(audio)[i + 1]) * 2 > One

\* the segment holds MinSpeechFrames frames of speech in a row
HoldsARun(audio, segment) ==
    \E i \in 0..(Len(Chunks(audio)) - MinSpeechFrames) :
        /\ \A j \in i..(i + MinSpeechFrames - 1) : SpeechFrame(audio, j)
        /\ as_f32(i * VadFrameSize) >= segment[1]
        /\ as_f32(IF (i + MinSpeechFrames) * VadFrameSize < Len(audio)
                  THEN (i + MinSpeechFrames) * VadFrameSize
                  ELSE Len(audio)) <= segment[2]

\* C28: every segment get_speech_timestamps reports holds a run of at least
\* MIN_SPEECH_FRAMES speech frames in a row; shorter bursts, whatever the
\* silences between them, give no segment.
C28_EverySegmentHoldsARun ==
    call.fn = "get_speech_timestamps" /\ call.pc # "called" =>
        \A k \in 1..Len(call.segments) : HoldsARun(call.audio, call.segments[k])


\* C29: the transcriber of a session has locked no mutex while it held
\* another.
C29_OneMutexAtATime ==
    \A s \in Sessions : sessions[s].nested = {}


\* the texts joined by single spaces
RECURSIVE JoinedBySpaces(_)
JoinedBySpaces(texts) ==
    IF texts = <<>> THEN <<>>
    ELSE IF Len(texts) = 1 THEN texts[1]
    ELSE texts[1] \o <<" ">> \o JoinedBySpaces(Tail(texts))

\* the transcriber of s calls transcribe_chunk of Whisper in this step
CallsWhisper(s) ==
    /\ sessions[s].active_engine = "Whisper"
    /\ \/ \E r \in EngineOutcomes : TranscriberWindowWith(s, TRUE, r)
       \/ /\ TranscriberFinish(s)
          /\ \/ Len(sessions[s].buffer) >= chunk_size(sessions[s].sample_rate)
             \/ /\ sessions[s].buffer # <<>>
                /\ LongerThanMinimum(Len(sessions[s].buffer),
                                     sessions[s].sample_rate)

\* C30: at every transcribe_chunk call of a Whisper session the rolling
\* context, which is the prompt of the call, is the non-empty outputs of the
\* earlier calls of that session joined by single spaces, and so empty at the
\* first.
C30_ContextOfThisSessionOnly ==
    [][\A s \in Sessions :
          CallsWhisper(s) /\ ~whisper.poisoned
          => whisper.last_transcript = JoinedBySpaces(sessions[s].decoded)]_vars


\* C31: on the Parakeet path the samples received from the transcription
\* channel are given to the engine once each and in the order of arrival:
\* what was sent is what the engine was given, then the buffer, then what
\* waits in the channel, and once the transcriber is done only a remainder
\* of at most 0.1 s was not given.
C31_EverySampleStreamedOnce ==
    \A s \in Sessions :
        LET me == sessions[s]
        IN  me.active_engine = "Parakeet" =>
               /\ me.transcriber_thread \in {"recv", "window", "closed"} =>
                      Flatten(me.sent) =
                          me.streamed \o me.buffer \o Flatten(me.whisper_rx)
               /\ me.transcriber_thread = "done" =>
                      IF LongerThanMinimum(Len(me.buffer), me.sample_rate)
                      THEN Flatten(me.sent) = me.streamed
                      ELSE Flatten(me.sent) = me.streamed \o me.buffer


\* C32: when stop_recording branches on the active engine, that engine is
\* the one the transcriber of the session decoded with and the one whose
\* context start_recording reset for the session.
C32_OneEnginePerSession ==
    [][StopReturn =>
          /\ active_engine = sessions[stop.session].active_engine
          /\ active_engine = sessions[stop.session].reset]_vars


\* C33: no interleaving of the threads stops with a thread that has not
\* returned: while one has steps left, one of them can take its next step.
C33_NoDeadlock ==
    call.fn = "locks" =>
        (\A t \in Threads : Returned(t)) \/ (\E t \in Threads : CanStep(t))

\* stop_recording holds the slot and waits in join for the transcriber, which
\* waits for the Whisper manager, which benchmark_test holds with the VAD,
\* while switch_model waits for the slot
C33_StopJoinsHoldingTheSlot ==
    /\ call.fn = "locks"
    /\ call.owner["recording_handle"] = "stop_recording"
    /\ ~Returned("stop_recording") /\ ~CanStep("stop_recording")
    /\ ~Returned("transcriber") /\ ~CanStep("transcriber")
    /\ call.owner["whisper"] = "benchmark_test"
    /\ call.owner["vad"] = "benchmark_test"
    /\ ~Returned("switch_model") /\ ~CanStep("switch_model")


\* C34: whenever the transcriber waits in recv its buffer holds less than
\* one window of its engine, and between two waits the buffer without the
\* block received last holds less than one window: what the buffer holds
\* above two windows, when the oldest window is dropped, came in that block.
C34_LessThanAWindowAtRecv ==
    \A s \in Sessions :
        LET me == sessions[s]
            received == Len(me.sent) - Len(me.whisper_rx)
            last == IF received > 0 THEN Len(me.sent[received]) ELSE 0
        IN  /\ me.transcriber_thread = "recv" =>
                   Len(me.buffer) < WindowSize(me)
            /\ me.transcriber_thread = "window" =>
                   /\ Len(me.buffer) < WindowSize(me) + last
                   /\ Len(me.buffer) > 2 * WindowSize(me) => last > WindowSize(me)

\* the transcriber is about to drop the oldest window of a buffer that one
\* block took above two windows
C34_AboutToDrop ==
    \E s \in Sessions :
        /\ sessions[s].transcriber_thread = "window"
        /\ Len(sessions[s].buffer) > 2 * WindowSize(sessions[s])
        /\ sessions[s].streamed = <<>>


\* C35: after every call of Denoiser::process the remainder is shorter than
\* a frame, the output of the call is a whole number of frames, and the
\* samples returned since construction together with the remainder are as
\* many as the samples supplied (and are those samples, in order)
C35_FramesOutRemainderKept ==
    call.fn = "stream" =>
        /\ Len(call.remainder) < FrameSize
        /\ Len(call.output) % FrameSize = 0
        /\ Len(call.returned) + Len(call.remainder) = Len(call.supplied)
        /\ [i \in 1..Len(call.returned) |-> Undenoised(call.returned[i])]
               \o call.remainder = call.supplied

\* a call found a remainder, completed its frame with the head of the
\* block, returned frames and left a new remainder
C35_RemainderCompletedAndLeft ==
    /\ call.fn = "stream"
    /\ call.buffered > 0
    /\ Len(call.output) >= 2 * FrameSize
    /\ call.remainder # <<>>

\* C36: an initialize that fails (the model file is missing, the id is not
\* a model's, or no tier loads the model) leaves the manager's loaded
\* model, its model name and its backend as they were, and a failed
\* init_parakeet leaves the selector of the engine as it was
C36_FailedInitializeChangesNothing ==
    (call.fn = "initialize" /\ ~call.last.ok) =>
        /\ call.whisper = call.last.whisper
        /\ call.parakeet = call.last.parakeet
        /\ call.active_engine = call.last.active_engine

\* a model is loaded and named, and the load of another model, whose file
\* is there, has failed on every tier
C36_EveryTierFailedAfterALoad ==
    /\ call.fn = "initialize"
    /\ ~call.last.ok
    /\ call.last.cmd = "switch_model"
    /\ call.whisper.current_model = "tiny.en-q5_1"
    /\ "base" \in call.machine.files
    /\ "base" \in call.machine.corrupt

\* start_recording has returned an error after it spawned the workers of
\* session s: the stream of s never played, and a worker of s still runs
StartFailedAfterSpawn(s) ==
    /\ start.session # s
    /\ sessions[s].stream = "none"
    /\ \/ sessions[s].writer_thread = "running"
       \/ sessions[s].transcriber_thread \in {"recv", "window"}

\* C37: when start_recording fails after the workers were spawned (the
\* stream is not built or does not play), no sender of the session is left
\* once it has returned, and both workers end: the writer finalizes the WAV
\* file and the transcriber finishes
C37_FailedStartEndsTheWorkers ==
    \A s \in Sessions :
        /\ [](StartFailedAfterSpawn(s) =>
                 /\ ~sessions[s].file_tx /\ ~sessions[s].file_tx_clone
                 /\ ~sessions[s].whisper_tx /\ ~sessions[s].whisper_tx_clone)
        /\ StartFailedAfterSpawn(s) ~> Finished(sessions[s])

\* the writer of a failed start has finalized its file, and the
\* transcriber has received the lead-in and not yet found the channel
\* disconnected
C37_WriterDoneTranscriberGoing ==
    \E s \in Sessions :
        /\ StartFailedAfterSpawn(s)
        /\ sessions[s].writer_thread = "done"
        /\ sessions[s].transcriber_thread = "recv"
        /\ sessions[s].buffer # <<>>

\* C38: after a hotkey-start-recording, the release of any key of the
\* binding that triggered it emits hotkey-stop-recording, also when
\* set_hotkey has changed the binding in between
C38_ReleaseOfATriggerKeyStops ==
    [][\A key \in Keys :
          (/\ KeyRelease(key)
           /\ call.recording_active
           /\ key \in call.trigger)
              => (/\ call'.emitted = "hotkey-stop-recording"
                  /\ ~call'.recording_active)]_vars
====
